---- MODULE Spec2Model ----
(***************************************************************************)
(* Task mutation and query engine of the task-tracking backend:            *)
(* controllers/taskController.ts, models/Task.ts, jobs/taskCron.ts and     *)
(* utils/dbHelpers.ts, over a document store with snapshot transactions    *)
(* and a unique (title, userId) index.                                     *)
(*                                                                         *)
(* Time is counted in units of two hours.  Every await on the store is a   *)
(* step; steps of different requests and of the sweeps interleave freely.  *)
(***************************************************************************)
EXTENDS Integers, Sequences, FiniteSets, TLC

\* ------------------------------------------------------------- bounds
NumProcs == 2
NumSweeps == 2
MaxTasks == 2
MaxTime == 2
MaxComments == 1
LifeTasks == 1
MaxThread == 2
MaxTotal == 25
OverMax == 60
MaxPage == 4
MaxUsers == 5

\* ---------------------------------------------------------- constants
\* 2 * 60 * 60 * 1000 ms, the unit of time
TwoHours == 1
\* MAX_RETRIES of connectDB
MAX_RETRIES == 5
\* the schema's default for the date fields: null
Null == -1
\* defaultRetryConfig.maxRetries
DefaultMaxRetries == 3

Procs == 1..NumProcs
Sweeps == 1..NumSweeps
TaskIds == 1..MaxTasks
Users == {"u1", "u2", "u3"}

PENDING == "pending"
IN_PROGRESS == "in-progress"
DONE == "done"
TaskStatus == {PENDING, IN_PROGRESS, DONE}

\* Titles are sequences of characters, so that the index collation is computed.
TitlePlan == <<"P", "l", "a", "n">>
TitleplanLower == <<"p", "l", "a", "n">>
TitleShip == <<"S", "h", "i", "p">>
Titles == {TitlePlan, TitleplanLower, TitleShip}

\* collation { locale: "en", strength: 2 }: letters compare ignoring case
LowerChar(c) ==
  CASE c = "P" -> "p"
    [] c = "S" -> "s"
    [] c = "Q" -> "q"
    [] OTHER -> c

Collate(title) == [i \in DOMAIN title |-> LowerChar(title[i])]

VARIABLES
  tasks,            \* the Task collection: live _id -> document
  nextId,           \* the next fresh _id
  now,              \* the clock
  req,              \* per request slot: the handler's position and locals
  sweep,            \* per sweep slot: the auto-close job's position and locals
  inProgressSince,  \* history: _id -> when the task last entered in-progress
  out,              \* the response sent by the step just taken, if it sent one
  boot,             \* the store connection, connectDB's retry count, the scheduler
  users             \* the User collection

vars == <<tasks, nextId, now, req, sweep, inProgressSince, out, boot, users>>

Idle == [pc |-> "idle"]

\* ------------------------------------------------------------ helpers
Range(s) == {s[i] : i \in DOMAIN s}

\* { $or: [{ userId }, { collaborators: userId }] }
AnyRequester(doc, u) == TRUE

OwnerOrCollaborator(doc, u) == doc.userId = u \/ u \in Range(doc.collaborators)

\* { userId }
OwnerOrShared(doc, u) == doc.userId = u \/ u \in Range(doc.collaborators)

OwnerOnly(doc, u) == doc.userId = u

\* what a handler sends: status code and message
Result(code, message) == [code |-> code, message |-> message, body |-> <<>>]

\* res.json(body)
Json(body) == [code |-> 200, message |-> "ok", body |-> body]

\* the response observed: the handler, the requester, the :id of the route,
\* the step that sent it, and what was sent
Response(op, to, id, site, result) ==
  [op |-> op, to |-> to, id |-> id, site |-> site,
   code |-> result.code, message |-> result.message, body |-> result.body]

NoResponse == Response("none", "", 0, "", Result(0, ""))

\* a line the job logs when it ends
JobLog(message) == Response("autoCloseTasks", "", 0, "log", Result(0, message))

NotFoundMsg == "Task not found or not authorized"
DuplicateMsg == "Task with this title already exists for this user"
ServerErrorMsg == "Server error"

\* Positions at which a request holds an open transaction with a snapshot.
TxPcs == {"status_save", "details_save", "delete_write", "comment_save"}

\* A committed write to a document makes every open transaction whose
\* snapshot holds the older version fail its own write (WriteConflict).
NoSessionStale(r, id) == FALSE

\* updateTaskStatus's findOne and save without their session
StatusOutsideSession(r, id) == r.pc \in TxPcs \ {"status_save"} /\ r.id = id

SnapshotStale(r, id) == r.pc \in TxPcs /\ r.id = id

MarkNone(p, id) == req

MarkConflicts(p, id) ==
  [q \in Procs |->
     IF q # p /\ SnapshotStale(req[q], id)
     THEN [req[q] EXCEPT !.conflict = TRUE]
     ELSE req[q]]

\* document.save(): $set of the modified paths only
Delta(stored, orig, new) ==
  [f \in DOMAIN stored |-> IF new[f] # orig[f] THEN new[f] ELSE stored[f]]

\* taskSchema.pre("save")
PreSaveRestamps(orig, doc, t) ==
  IF doc.status = DONE THEN [doc EXCEPT !.completedAt = t]
  ELSE IF doc.status = IN_PROGRESS /\ doc.startedAt = Null THEN [doc EXCEPT !.startedAt = t]
  ELSE [doc EXCEPT !.completedAt = Null]

PreSave(orig, doc, t) ==
  IF doc.status # orig.status
  THEN LET d1 == IF doc.status = DONE /\ doc.completedAt = Null
                 THEN [doc EXCEPT !.completedAt = t] ELSE doc
           d2 == IF d1.status = IN_PROGRESS /\ d1.startedAt = Null
                 THEN [d1 EXCEPT !.startedAt = t] ELSE d1
           d3 == IF d2.status # DONE /\ d2.completedAt # Null
                 THEN [d2 EXCEPT !.completedAt = Null] ELSE d2
       IN d3
  ELSE doc

\* updateTaskStatus: the assignments between findOne and save
SetStatusRestarts(doc, status, t) ==
  LET d0 == [doc EXCEPT !.status = status]
      d1 == IF status = DONE /\ d0.completedAt = Null
            THEN [d0 EXCEPT !.completedAt = t] ELSE d0
      d2 == IF status = IN_PROGRESS THEN [d1 EXCEPT !.startedAt = t] ELSE d1
      d3 == IF status # DONE /\ d2.completedAt # Null
            THEN [d2 EXCEPT !.completedAt = Null] ELSE d2
  IN d3

SetStatusForwardOnly(doc, status, t) ==
  IF doc.status = DONE /\ status # DONE THEN doc
  ELSE LET d0 == [doc EXCEPT !.status = status]
           d1 == IF status = DONE /\ d0.completedAt = Null
                 THEN [d0 EXCEPT !.completedAt = t] ELSE d0
       IN IF status = IN_PROGRESS /\ d1.startedAt = Null
          THEN [d1 EXCEPT !.startedAt = t] ELSE d1

SetStatusClearsStart(doc, status, t) ==
  LET d0 == [doc EXCEPT !.status = status]
      d1 == IF status = DONE /\ d0.completedAt = Null
            THEN [d0 EXCEPT !.completedAt = t] ELSE d0
      d2 == IF status = IN_PROGRESS /\ d1.startedAt = Null
            THEN [d1 EXCEPT !.startedAt = t]
            ELSE IF status = PENDING THEN [d1 EXCEPT !.startedAt = Null] ELSE d1
      d3 == IF status # DONE /\ d2.completedAt # Null
            THEN [d2 EXCEPT !.completedAt = Null] ELSE d2
  IN d3

SetStatus(doc, status, t) ==
  LET d0 == [doc EXCEPT !.status = status]
      d1 == IF status = DONE /\ d0.completedAt = Null
            THEN [d0 EXCEPT !.completedAt = t] ELSE d0
      d2 == IF status = IN_PROGRESS /\ d1.startedAt = Null
            THEN [d1 EXCEPT !.startedAt = t] ELSE d1
      d3 == IF status # DONE /\ d2.completedAt # Null
            THEN [d2 EXCEPT !.completedAt = Null] ELSE d2
  IN d3


\* ------------------------------------------------------------- errors
Err(name, code, message) == [name |-> name, code |-> code, message |-> message]

UserNotFoundMsg == "User not found"
CollaboratorsMsg == "One or more collaborators don't exist"
ErrNotFound == Err("Error", 0, NotFoundMsg)
ErrDuplicate == Err("Error", 0, DuplicateMsg)
ErrCollaborators == Err("Error", 0, CollaboratorsMsg)
ErrUserNotFound == Err("Error", 0, UserNotFoundMsg)
ErrValidation == Err("ValidationError", 0, "Task validation failed")
ErrE11000 == Err("MongoServerError", 11000, "E11000 duplicate key error collection")
ErrWriteConflict == Err("MongoServerError", 112, "WriteConflict")

\* error.message.includes(needle), over the messages above
Includes(message, needle) ==
  CASE needle = "already exists" -> message = DuplicateMsg
    [] needle = "User not found" -> message = UserNotFoundMsg
    [] needle = "not found" -> message \in {NotFoundMsg, UserNotFoundMsg}
    [] needle = "not authorized" -> message = NotFoundMsg
    [] needle = "don't exist" -> message = CollaboratorsMsg
    [] OTHER -> FALSE

\* taskSchema.post("save") error hook
PostSaveKeepsError(err) == err

PostSave(err) ==
  IF err.name = "MongoServerError" /\ err.code = 11000
  THEN ErrDuplicate
  ELSE err

formatDbError(error) ==
  IF error.name = "ValidationError" THEN "Validation failed"
  ELSE IF error.code = 11000 THEN "Duplicate key error. Record already exists."
  ELSE error.message

\* a response field that is undefined and so left out of the JSON
NoDetail == "undefined"

\* res.status(500).json({ message: "Server error", error: errorMessage })
ServerError(error) ==
  [code |-> 500, message |-> ServerErrorMsg, body |-> [error |-> formatDbError(error)]]

\* the catch blocks of the controllers
CreateTaskCatchNoConflict(error) ==
  IF error.name = "ValidationError"
  THEN Result(400, formatDbError(error))
  ELSE IF Includes(error.message, "User not found")
  THEN Result(404, formatDbError(error))
  ELSE ServerError(error)

CreateTaskCatch(error) ==
  IF Includes(error.message, "already exists") \/ error.name = "ValidationError"
  THEN Result(400, formatDbError(error))
  ELSE IF Includes(error.message, "User not found")
  THEN Result(404, formatDbError(error))
  ELSE ServerError(error)

UpdateTaskStatusCatch(error) ==
  IF Includes(error.message, "not found") \/ Includes(error.message, "not authorized")
  THEN Result(404, formatDbError(error))
  ELSE IF error.name = "ValidationError"
  THEN Result(400, formatDbError(error))
  ELSE ServerError(error)

DeleteTaskCatch(error) ==
  IF Includes(error.message, "not found") \/ Includes(error.message, "not authorized")
  THEN Result(404, formatDbError(error))
  ELSE ServerError(error)

UpdateTaskDetailsCatch(error) ==
  IF Includes(error.message, "not found") \/ Includes(error.message, "not authorized")
  THEN Result(404, formatDbError(error))
  ELSE IF error.name = "ValidationError" \/ Includes(error.message, "don't exist")
  THEN Result(400, formatDbError(error))
  ELSE ServerError(error)

AddCommentCatch(error) ==
  IF Includes(error.message, "not found") \/ Includes(error.message, "not authorized")
  THEN Result(404, formatDbError(error))
  ELSE IF error.name = "ValidationError"
  THEN Result(400, formatDbError(error))
  ELSE ServerError(error)

\* -------------------------------------------------------------- store
\* x || fallback, for a request field that may be absent
Field(body, f, fallback) == IF f \in DOMAIN body THEN body[f] ELSE fallback

\* User.countDocuments({ _id: { $in: ids } }) === ids.length
AllExistUnchecked(ids) == TRUE

AnyExists(ids) == ids = <<>> \/ Range(ids) \cap Users # {}

AllExist(ids) == Cardinality(Range(ids) \cap Users) = Len(ids)

\* res.status(400).json({ errors: errors.array() })
RouteErrors == [code |-> 400, message |-> "", body |-> <<"errors">>]

\* the validators of POST /tasks: title, description, collaborators
CreateUnchecked(body) == TRUE

CreateValid(body) ==
  /\ Len(body.title) >= 3
  /\ Len(body.description) > 0
  /\ AllExist(Field(body, "collaborators", <<>>))

\* the validators of PATCH /tasks/:id
DetailsValid(body) ==
  /\ "title" \in DOMAIN body => Len(body.title) >= 3
  /\ "description" \in DOMAIN body => Len(body.description) > 0
  /\ AllExist(Field(body, "collaborators", <<>>))

\* the unique index on { title, userId } with the case-insensitive collation
DuplicateKeyExact(store, id, doc) ==
  \E j \in DOMAIN store \ {id} :
    store[j].title = doc.title /\ store[j].userId = doc.userId

DuplicateKey(store, id, doc) ==
  \E j \in DOMAIN store \ {id} :
    /\ store[j].userId = doc.userId
    /\ Collate(store[j].title) = Collate(doc.title)

\* Task.findOne({ title, userId })
FindByTitle(title, u) ==
  \E j \in DOMAIN tasks : tasks[j].title = title /\ tasks[j].userId = u

\* the document Task.create builds, with the schema defaults
NewTaskFromBody(body, u) ==
  [title |-> body.title,
   description |-> body.description,
   userId |-> u,
   status |-> Field(body, "status", PENDING),
   priority |-> Field(body, "priority", "medium"),
   dueDate |-> Field(body, "dueDate", Null),
   tags |-> Field(body, "tags", <<>>),
   category |-> Field(body, "category", "Uncategorized"),
   collaborators |-> Field(body, "collaborators", <<>>),
   startedAt |-> Field(body, "startedAt", Null),
   completedAt |-> Field(body, "completedAt", Null),
   comments |-> <<>>]

NewTask(body, u) ==
  [title |-> body.title,
   description |-> body.description,
   userId |-> u,
   status |-> PENDING,
   priority |-> Field(body, "priority", "medium"),
   dueDate |-> Field(body, "dueDate", Null),
   tags |-> Field(body, "tags", <<>>),
   category |-> Field(body, "category", "Uncategorized"),
   collaborators |-> Field(body, "collaborators", <<>>),
   startedAt |-> Null,
   completedAt |-> Null,
   comments |-> <<>>]

\* the schema validators that can fail for a document that passed the route
Validate(doc, isNew, t) ==
  /\ AllExist(doc.collaborators)
  /\ doc.userId \in Users
  /\ (doc.completedAt = Null \/ doc.completedAt <= t)
  /\ (~isNew \/ doc.dueDate = Null \/ doc.dueDate > t)

\* Task.deleteOne({ _id })
RemoveKeeps(store, id) == store

Remove(store, id) == [j \in DOMAIN store \ {id} |-> store[j]]

\* history: a write that moves a task into in-progress from another status
Entered(hist, id, old, new, t) ==
  IF new.status = old.status THEN hist
  ELSE [j \in DOMAIN hist \cup {id} |->
          IF j # id THEN hist[j]
          ELSE IF new.status = IN_PROGRESS THEN t ELSE Null]

\* the process when its modules are loaded: cron.schedule(...) followed by
\* cronJob.stop(), the first connectDB() under way with its promise pending,
\* and the HTTP server not yet listening
ModuleLoadNoStop ==
  [conn |-> "connecting", retryCount |-> 0, cron |-> "started", handlers |-> FALSE,
   startup |-> "pending", server |-> "closed"]

ModuleLoad ==
  [conn |-> "connecting", retryCount |-> 0, cron |-> "stopped", handlers |-> FALSE,
   startup |-> "pending", server |-> "closed"]

\* the process once connectDB has connected: cronJob.start() and the
\* connection's event handlers
Connected(b) ==
  [b EXCEPT !.conn = "connected", !.cron = "started", !.handlers = TRUE]

\* the accounts of Users, registered before any request
Account(id, username, email) == [_id |-> id, username |-> username, email |-> email]

Registered == {Account("u1", "user1", "u1@x.io"), Account("u2", "user2", "u2@x.io"),
               Account("u3", "user3", "u3@x.io")}

\* the collection, the handlers and the job before any request
InitEngine ==
  /\ users = Registered
  /\ tasks = <<>>
  /\ nextId = 1
  /\ now = 0
  /\ req = [p \in Procs |-> Idle]
  /\ sweep = [s \in Sweeps |-> Idle]
  /\ inProgressSince = <<>>
  /\ out = NoResponse

\* the promise of a connectDB() call settles when its attempt ends
Resolved(b) == [b EXCEPT !.startup = "resolved"]

\* startServer(): app.listen(port)
Listening(b) == [b EXCEPT !.server = "listening"]

\* the server serving requests after its first connection
Init ==
  /\ InitEngine
  /\ boot = Listening(Resolved(Connected(ModuleLoad)))

Tick ==
  /\ now < MaxTime
  /\ now' = now + 1
  /\ out' = NoResponse
  /\ UNCHANGED <<tasks, nextId, req, sweep, inProgressSince, boot, users>>

\* the handler goes on to its next await
Await(p, locals) ==
  /\ req' = [req EXCEPT ![p] = locals]
  /\ out' = NoResponse
  /\ UNCHANGED <<boot, users>>

\* the handler responds without having written
Reply(p, response) ==
  /\ req' = [req EXCEPT ![p] = Idle]
  /\ out' = response
  /\ UNCHANGED <<boot, users>>

\* the handler responds after its write to document id was committed
ReplyCommitted(p, id, response) ==
  /\ req' = [MarkConflicts(p, id) EXCEPT ![p] = Idle]
  /\ out' = response
  /\ UNCHANGED <<boot, users>>

\* ---------------------------------------------------------- createTask
InFlightCreates == Cardinality({q \in Procs : req[q].pc = "create_save"})

\* findById(userId), findOne({ title, userId }), countDocuments(collaborators)
CreateTaskCheck(p, u, body) ==
  /\ req[p].pc = "idle"
  /\ nextId + InFlightCreates <= MaxTasks
  /\ LET Failed(error) == Reply(p, Response("createTask", u, 0, "check", CreateTaskCatch(error)))
     IN IF ~CreateValid(body)
        THEN Reply(p, Response("createTask", u, 0, "route", RouteErrors))
        ELSE IF u \notin Users THEN Failed(ErrUserNotFound)
        ELSE IF FindByTitle(body.title, u) THEN Failed(ErrDuplicate)
        ELSE IF ~AllExist(Field(body, "collaborators", <<>>)) THEN Failed(ErrCollaborators)
        ELSE Await(p, [pc |-> "create_save", user |-> u, body |-> body])
  /\ UNCHANGED <<tasks, nextId, now, sweep, inProgressSince>>

\* Task.create(...)
CreateTaskSave(p) ==
  /\ req[p].pc = "create_save"
  /\ LET doc == NewTask(req[p].body, req[p].user)
         Sent(result) == Reply(p, Response("createTask", req[p].user, 0, "save", result))
     IN IF ~Validate(doc, TRUE, now)
        THEN /\ Sent(CreateTaskCatch(ErrValidation))
             /\ UNCHANGED <<tasks, nextId>>
        ELSE IF DuplicateKey(tasks, nextId, doc)
        THEN /\ Sent(CreateTaskCatch(PostSave(ErrE11000)))
             /\ UNCHANGED <<tasks, nextId>>
        ELSE /\ tasks' = tasks @@ (nextId :> doc)
             /\ nextId' = nextId + 1
             /\ Sent(Result(201, "created"))
  /\ UNCHANGED <<now, sweep, inProgressSince>>

\* ----------------------------------------------------- updateTaskStatus
UpdateTaskStatusFind(p, u, id, status) ==
  /\ req[p].pc = "idle"
  /\ IF id \in DOMAIN tasks /\ OwnerOrCollaborator(tasks[id], u)
     THEN Await(p, [pc |-> "status_save", user |-> u, id |-> id, status |-> status,
                    doc |-> tasks[id], conflict |-> FALSE])
     ELSE Reply(p, Response("updateTaskStatus", u, id, "find",
                            UpdateTaskStatusCatch(ErrNotFound)))
  /\ UNCHANGED <<tasks, nextId, now, sweep, inProgressSince>>

UpdateTaskStatusSave(p) ==
  /\ req[p].pc = "status_save"
  /\ LET r == req[p]
         new == PreSave(r.doc, SetStatus(r.doc, r.status, now), now)
         Sent(site, result) == Response("updateTaskStatus", r.user, r.id, site, result)
     IN IF new = r.doc
        THEN /\ Reply(p, Sent("unmodified", Result(200, "ok")))
             /\ UNCHANGED <<tasks, inProgressSince>>
        ELSE IF ~Validate(new, FALSE, now)
        THEN /\ Reply(p, Sent("save", UpdateTaskStatusCatch(ErrValidation)))
             /\ UNCHANGED <<tasks, inProgressSince>>
        ELSE IF r.conflict
        THEN /\ Reply(p, Sent("save", UpdateTaskStatusCatch(ErrWriteConflict)))
             /\ UNCHANGED <<tasks, inProgressSince>>
        ELSE /\ tasks' = [tasks EXCEPT ![r.id] = Delta(@, r.doc, new)]
             /\ inProgressSince' = Entered(inProgressSince, r.id, r.doc, new, now)
             /\ ReplyCommitted(p, r.id, Sent("save", Result(200, "ok")))
  /\ UNCHANGED <<nextId, now, sweep>>

\* ----------------------------------------------------------- deleteTask
DeleteTaskFind(p, u, id) ==
  /\ req[p].pc = "idle"
  /\ IF id \in DOMAIN tasks /\ OwnerOnly(tasks[id], u)
     THEN Await(p, [pc |-> "delete_write", user |-> u, id |-> id,
                    doc |-> tasks[id], conflict |-> FALSE])
     ELSE Reply(p, Response("deleteTask", u, id, "find", DeleteTaskCatch(ErrNotFound)))
  /\ UNCHANGED <<tasks, nextId, now, sweep, inProgressSince>>

DeleteTaskWrite(p) ==
  /\ req[p].pc = "delete_write"
  /\ LET r == req[p]
         Sent(result) == Response("deleteTask", r.user, r.id, "write", result)
     IN IF r.conflict
        THEN /\ Reply(p, Sent(DeleteTaskCatch(ErrWriteConflict)))
             /\ UNCHANGED <<tasks, inProgressSince>>
        ELSE /\ tasks' = Remove(tasks, r.id)
             /\ inProgressSince' = Remove(inProgressSince, r.id)
             /\ ReplyCommitted(p, r.id, Sent(Result(200, "Task removed successfully")))
  /\ UNCHANGED <<nextId, now, sweep>>

\* ---------------------------------------------------- updateTaskDetails
DetailFields == {"title", "description", "priority", "dueDate", "tags", "category"}

\* if (x !== undefined) task.x = x, for every field but collaborators
AssignAll(doc, body) ==
  [f \in DOMAIN doc |-> IF f \in DOMAIN body /\ f # "collaborators" THEN body[f] ELSE doc[f]]

Assign(doc, body) ==
  [f \in DOMAIN doc |-> IF f \in DetailFields /\ f \in DOMAIN body THEN body[f] ELSE doc[f]]

UpdateTaskDetailsFind(p, u, id, body) ==
  /\ req[p].pc = "idle"
  /\ IF ~DetailsValid(body)
     THEN Reply(p, Response("updateTaskDetails", u, id, "route", RouteErrors))
     ELSE IF id \in DOMAIN tasks /\ OwnerOnly(tasks[id], u)
     THEN Await(p, [pc |-> "details_save", user |-> u, id |-> id, body |-> body,
                    doc |-> tasks[id], conflict |-> FALSE])
     ELSE Reply(p, Response("updateTaskDetails", u, id, "find",
                            UpdateTaskDetailsCatch(ErrNotFound)))
  /\ UNCHANGED <<tasks, nextId, now, sweep, inProgressSince>>

UpdateTaskDetailsSave(p) ==
  /\ req[p].pc = "details_save"
  /\ LET r == req[p]
         d1 == Assign(r.doc, r.body)
         new == IF "collaborators" \in DOMAIN r.body
                THEN [d1 EXCEPT !.collaborators = r.body.collaborators] ELSE d1
         Sent(site, result) == Response("updateTaskDetails", r.user, r.id, site, result)
     IN IF "collaborators" \in DOMAIN r.body /\ ~AllExist(r.body.collaborators)
        THEN /\ Reply(p, Sent("save", UpdateTaskDetailsCatch(ErrCollaborators)))
             /\ UNCHANGED tasks
        ELSE IF new = r.doc
        THEN /\ Reply(p, Sent("unmodified", Result(200, "ok")))
             /\ UNCHANGED tasks
        ELSE IF ~Validate(new, FALSE, now)
        THEN /\ Reply(p, Sent("save", UpdateTaskDetailsCatch(ErrValidation)))
             /\ UNCHANGED tasks
        ELSE IF r.conflict
        THEN /\ Reply(p, Sent("save", UpdateTaskDetailsCatch(ErrWriteConflict)))
             /\ UNCHANGED tasks
        ELSE IF DuplicateKey(tasks, r.id, new)
        THEN /\ Reply(p, Sent("save", UpdateTaskDetailsCatch(PostSave(ErrE11000))))
             /\ UNCHANGED tasks
        ELSE /\ tasks' = [tasks EXCEPT ![r.id] = Delta(@, r.doc, new)]
             /\ ReplyCommitted(p, r.id, Sent("save", Result(200, "ok")))
  /\ UNCHANGED <<nextId, now, sweep, inProgressSince>>

\* ----------------------------------------------------------- addComment
\* the comment list of task id holds fewer than max comments
CommentRoom(id, max) == id \in DOMAIN tasks => Len(tasks[id].comments) < max

\* task.comments.push(...)
PushReplaces(comments, comment) == <<comment>>

Push(comments, comment) == Append(comments, comment)

AddCommentFind(p, u, id, text) ==
  /\ req[p].pc = "idle"
  /\ IF id \in DOMAIN tasks /\ OwnerOrCollaborator(tasks[id], u)
     THEN Await(p, [pc |-> "comment_save", user |-> u, id |-> id, text |-> text,
                    doc |-> tasks[id], conflict |-> FALSE])
     ELSE Reply(p, Response("addComment", u, id, "find", AddCommentCatch(ErrNotFound)))
  /\ UNCHANGED <<tasks, nextId, now, sweep, inProgressSince>>

AddCommentSave(p) ==
  /\ req[p].pc = "comment_save"
  /\ LET r == req[p]
         comment == [userId |-> r.user, text |-> r.text, createdAt |-> now]
         Sent(result) == Response("addComment", r.user, r.id, "save", result)
     IN IF ~Validate(r.doc, FALSE, now)
        THEN /\ Reply(p, Sent(AddCommentCatch(ErrValidation)))
             /\ UNCHANGED tasks
        ELSE IF r.conflict
        THEN /\ Reply(p, Sent(AddCommentCatch(ErrWriteConflict)))
             /\ UNCHANGED tasks
        ELSE /\ tasks' = [tasks EXCEPT ![r.id].comments = Push(@, comment)]
             /\ ReplyCommitted(p, r.id, Sent(Result(201, "created")))
  /\ UNCHANGED <<nextId, now, sweep, inProgressSince>>

\* ------------------------------------------------------------- getTasks
GetTasksCatch(error) ==
  IF Includes(error.message, "User not found")
  THEN Result(404, formatDbError(error))
  ELSE ServerError(error)

\* query.key = value
Set(query, key, value) ==
  [k \in DOMAIN query \cup {key} |-> IF k = key THEN value ELSE query[k]]

\* parseInt(req.query.f) || fallback
ParseInt(q, f, fallback) == IF f \in DOMAIN q /\ q[f] # 0 THEN q[f] ELSE fallback

\* the filter object built from the query string, key by key
BuildQuery(userId, q) ==
  LET q1 == IF Field(q, "isCollaborator", "false") = "true"
            THEN "$or" :> [op |-> "or",
                           value |-> {[field |-> "userId", op |-> "eq", value |-> userId],
                                      [field |-> "collaborators", op |-> "eq", value |-> userId]}]
            ELSE "userId" :> [op |-> "eq", value |-> userId]
      q2 == IF "status" \in DOMAIN q THEN Set(q1, "status", [op |-> "eq", value |-> q.status]) ELSE q1
      q3 == IF "priority" \in DOMAIN q
            THEN Set(q2, "priority", [op |-> "eq", value |-> q.priority]) ELSE q2
      q4 == IF "tags" \in DOMAIN q /\ Len(q.tags) > 0
            THEN Set(q3, "tags", [op |-> "in", value |-> Range(q.tags)]) ELSE q3
      q5 == IF "category" \in DOMAIN q
            THEN Set(q4, "category", [op |-> "eq", value |-> q.category]) ELSE q4
      q6 == IF "search" \in DOMAIN q /\ Len(q.search) > 0
            THEN Set(q5, "$or", [op |-> "or",
                                 value |-> {[field |-> "title", op |-> "regex", value |-> q.search],
                                            [field |-> "description", op |-> "regex",
                                             value |-> q.search]}])
            ELSE q5
  IN IF "dueDateFrom" \in DOMAIN q \/ "dueDateTo" \in DOMAIN q
     THEN Set(q6, "dueDate", [op |-> "range",
                              value |-> <<Field(q, "dueDateFrom", Null), Field(q, "dueDateTo", Null)>>])
     ELSE q6

\* { $regex: term, $options: "i" } for a literal term
Regex(term, text) ==
  \E i \in 0..(Len(text) - Len(term)) :
    Collate(SubSeq(text, i + 1, i + Len(term))) = Collate(term)

\* one condition of the filter against one field of a document
Test(doc, field, cond) ==
  CASE cond.op = "eq" ->
         IF field \in {"collaborators", "tags"}
         THEN cond.value \in Range(doc[field]) ELSE doc[field] = cond.value
    [] cond.op = "in" -> Range(doc[field]) \cap cond.value # {}
    [] cond.op = "regex" -> Regex(cond.value, doc[field])
    [] cond.op = "range" ->
         /\ doc[field] # Null
         /\ cond.value[1] = Null \/ doc[field] >= cond.value[1]
         /\ cond.value[2] = Null \/ doc[field] <= cond.value[2]

\* the keys of the filter are a conjunction; $or is a disjunction
Matches(doc, query) ==
  \A k \in DOMAIN query :
    IF k = "$or" THEN \E c \in query[k].value : Test(doc, c.field, c)
    ELSE Test(doc, k, query[k])

\* the matching ids in the order of .sort({ createdAt: sortOrder })
RECURSIVE Sorted(_, _)
Sorted(ids, asc) ==
  IF ids = {} THEN <<>>
  ELSE LET first == CHOOSE i \in ids : \A j \in ids : IF asc THEN i <= j ELSE i >= j
       IN <<first>> \o Sorted(ids \ {first}, asc)

Abs(n) == IF n < 0 THEN -n ELSE n

\* parseInt(req.query.page) || 1, parseInt(req.query.limit) || 10, skip
PageNumber(q) == ParseInt(q, "page", 1)
Limit(q) == ParseInt(q, "limit", 10)
Skip(q) == (PageNumber(q) - 1) * Limit(q)

\* the pagination object of the response
PaginationNextByPages(q, totalTasks) ==
  [totalTasks |-> totalTasks,
   totalPages |-> (totalTasks + Abs(Limit(q)) - 1) \div Abs(Limit(q)),
   currentPage |-> PageNumber(q),
   hasNextPage |-> PageNumber(q) <= (totalTasks + Abs(Limit(q)) - 1) \div Abs(Limit(q)),
   hasPrevPage |-> PageNumber(q) > 1]

Pagination(q, totalTasks) ==
  [totalTasks |-> totalTasks,
   totalPages |-> (totalTasks + Abs(Limit(q)) - 1) \div Abs(Limit(q)),
   currentPage |-> PageNumber(q),
   hasNextPage |-> PageNumber(q) * Limit(q) < totalTasks,
   hasPrevPage |-> PageNumber(q) > 1]

\* .skip(skip).limit(limit)
Page(ids, skip, limit) ==
  SubSeq(ids, skip + 1, IF skip + Abs(limit) < Len(ids) THEN skip + Abs(limit) ELSE Len(ids))

\* the wrapper of res.json installed on the route: only a body with a data
\* array and a total is rewritten
paginationMiddleware(q, body) ==
  LET parsed == ParseInt(q, "limit", 10)
      atLeastOne == IF parsed < 1 THEN 1 ELSE parsed
      limit == IF atLeastOne > 50 THEN 50 ELSE atLeastOne
  IN IF "data" \in DOMAIN body /\ "total" \in DOMAIN body
     THEN [data |-> body.data, total |-> body.total, limit |-> limit]
     ELSE body

\* User.findById(userId), then Task.find(query).sort().skip().limit()
GetTasksFind(p, u, q) ==
  /\ req[p].pc = "idle"
  /\ LET userId == Field(q, "userId", u)
         limit == Limit(q)
         skip == Skip(q)
         query == BuildQuery(userId, q)
         ids == Sorted({id \in DOMAIN tasks : Matches(tasks[id], query)},
                       Field(q, "sortOrder", "desc") = "asc")
         Failed(error) == Reply(p, Response("getTasks", u, 0, "find", GetTasksCatch(error)))
     IN IF userId \notin Users THEN Failed(ErrUserNotFound)
        ELSE IF skip < 0 THEN Failed(Err("MongoServerError", 2, "Skip value must be non-negative"))
        ELSE Await(p, [pc |-> "list_count", user |-> u, q |-> q,
                       found |-> [i \in DOMAIN Page(ids, skip, limit) |->
                                    [id |-> Page(ids, skip, limit)[i],
                                     task |-> tasks[Page(ids, skip, limit)[i]]]]])
  /\ UNCHANGED <<tasks, nextId, now, sweep, inProgressSince>>

\* Task.countDocuments(query), then res.json(result)
GetTasksCount(p) ==
  /\ req[p].pc = "list_count"
  /\ LET r == req[p]
         query == BuildQuery(Field(r.q, "userId", r.user), r.q)
         totalTasks == Cardinality({id \in DOMAIN tasks : Matches(tasks[id], query)})
         result == [tasks |-> r.found, pagination |-> Pagination(r.q, totalTasks)]
     IN Reply(p, Response("getTasks", r.user, 0, "count",
                          Json(paginationMiddleware(r.q, result))))
  /\ UNCHANGED <<tasks, nextId, now, sweep, inProgressSince>>

\* getTasks over a collection in which total tasks match the filter and
\* nothing is written between the find and the count
GetTasksOver(p, total, q) ==
  /\ req[p].pc = "idle"
  /\ Await(p, [pc |-> "list_page", total |-> total, q |-> q,
                found |-> Page([i \in 1..total |-> i], Skip(q), Limit(q))])
  /\ UNCHANGED <<tasks, nextId, now, sweep, inProgressSince>>

GetTasksRespond(p) ==
  /\ req[p].pc = "list_page"
  /\ LET r == req[p]
         result == [tasks |-> r.found, pagination |-> Pagination(r.q, r.total)]
     IN Reply(p, Response("getTasks", "", 0, "count", Json(paginationMiddleware(r.q, result))))
  /\ UNCHANGED <<tasks, nextId, now, sweep, inProgressSince>>

\* ------------------------------------------------------- autoCloseTasks
\* Task.find({ status: IN_PROGRESS, startedAt: { $lt: new Date(cutoff) } })
StaleAtCutoff(doc, t) ==
  /\ doc.status = IN_PROGRESS
  /\ doc.startedAt # Null
  /\ doc.startedAt <= t - TwoHours

\* the query without its status condition
StaleAnyStatus(doc, t) ==
  /\ doc.startedAt # Null
  /\ doc.startedAt < t - TwoHours

Stale(doc, t) ==
  /\ doc.status = IN_PROGRESS
  /\ doc.startedAt # Null
  /\ doc.startedAt < t - TwoHours

\* the job stamping completedAt with its cutoff
CloseAtCutoff(doc, t) == [doc EXCEPT !.status = DONE, !.completedAt = t - TwoHours]

\* task.status = DONE; task.completedAt = new Date()
Close(doc, t) == [doc EXCEPT !.status = DONE, !.completedAt = t]

\* the query, and the map that starts one save per task found; with nothing
\* found the job returns at once
AutoCloseTasksFind(s) ==
  /\ sweep[s].pc = "idle"
  /\ LET found == {id \in DOMAIN tasks : Stale(tasks[id], now)}
     IN IF boot.conn # "connected"
        THEN /\ out' = JobLog("Auto-close failed")
             /\ UNCHANGED sweep
        ELSE IF found = {}
        THEN /\ out' = JobLog("No tasks to close")
             /\ UNCHANGED sweep
        ELSE /\ out' = NoResponse
             /\ sweep' = [sweep EXCEPT ![s] =
                  [pc |-> "saving", found |-> [id \in found |-> tasks[id]],
                   todo |-> found, at |-> now, failed |-> FALSE]]
  /\ UNCHANGED <<tasks, nextId, now, req, inProgressSince, boot, users>>

\* the scheduler's tick: a started cronJob of a live process calls the job
CronTick(s) ==
  /\ boot.cron = "started"
  /\ boot.conn # "exited"
  /\ AutoCloseTasksFind(s)

\* the exported job function, called directly
RunAutoCloseTasksJob(s) == AutoCloseTasksFind(s)

\* tasks.map(...) has called every task.save() before Promise.all awaits
\* any of them: a save runs whether or not another one was rejected
SaveStopsAfterFailure(w) == ~w.failed

SaveRuns(w) == TRUE

\* one task.save() of the Promise.all: the first one to fail rejects it, the
\* last one to succeed resolves it
AutoCloseTasksSave(s, id) ==
  /\ sweep[s].pc = "saving"
  /\ id \in sweep[s].todo
  /\ LET w == sweep[s]
         orig == w.found[id]
         new == PreSave(orig, Close(orig, w.at), now)
         left == w.todo \ {id}
         saved == SaveRuns(w) /\ id \in DOMAIN tasks /\ Validate(new, FALSE, now)
         failed == w.failed \/ ~saved
     IN /\ sweep' = [sweep EXCEPT ![s] =
             IF left = {} THEN Idle ELSE [w EXCEPT !.todo = left, !.failed = failed]]
        /\ out' = IF ~saved /\ ~w.failed THEN JobLog("Auto-close failed")
                  ELSE IF left = {} /\ ~failed THEN JobLog("Auto-close complete")
                  ELSE NoResponse
        /\ IF saved
           THEN /\ tasks' = [tasks EXCEPT ![id] = Delta(@, orig, new)]
                /\ inProgressSince' = Entered(inProgressSince, id, tasks[id], tasks'[id], now)
                /\ req' = MarkConflicts(0, id)
           ELSE UNCHANGED <<tasks, req, inProgressSince>>
  /\ UNCHANGED <<nextId, now, boot, users>>

\* ------------------------------------------------------------ connectDB
\* await mongoose.connect(...) resolves: cronJob.start(), handlers registered
ConnectDBSucceeds ==
  /\ boot.conn = "connecting"
  /\ boot' = Resolved(Connected(boot))
  /\ out' = NoResponse
  /\ UNCHANGED <<tasks, nextId, now, req, sweep, inProgressSince, users>>

\* await mongoose.connect(...) rejects: retry after RETRY_INTERVAL, or exit
ConnectDBFails ==
  /\ boot.conn = "connecting"
  /\ boot' = IF boot.retryCount < MAX_RETRIES
             THEN Resolved([boot EXCEPT !.retryCount = @ + 1])
             ELSE [boot EXCEPT !.conn = "exited"]
  /\ out' = NoResponse
  /\ UNCHANGED <<tasks, nextId, now, req, sweep, inProgressSince, users>>

\* the connection's "disconnected" event: setTimeout(() => connectDB(0))
Disconnected ==
  /\ boot.conn = "connected"
  /\ boot.handlers
  /\ boot' = [boot EXCEPT !.conn = "connecting", !.retryCount = 0]
  /\ out' = NoResponse
  /\ UNCHANGED <<tasks, nextId, now, req, sweep, inProgressSince, users>>

\* connectDB().then(...): initRedis, then startServer(), once the promise
\* of the first connectDB() call has settled
StartServer ==
  /\ boot.startup = "resolved"
  /\ boot.server = "closed"
  /\ boot.conn # "exited"
  /\ boot' = Listening(boot)
  /\ out' = NoResponse
  /\ UNCHANGED <<tasks, nextId, now, req, sweep, inProgressSince, users>>

\* ------------------------------------------------------------ withRetry
\* defaultRetryConfig.retryableErrors
retryableErrors ==
  <<"MongoNetworkError", "MongoTimeoutError", "MongoWriteConcernError",
    "MongoServerSelectionError">>

\* the value of lastError before any catch
Undefined == Err("undefined", 0, "undefined")

\* finalConfig.retryableErrors.includes(error.name)
isRetryableAlways(error) == TRUE

isRetryable(error) == error.name \in Range(retryableErrors)

\* lastError = error
CaughtFirst(lastError, error) == IF lastError = Undefined THEN error ELSE lastError

Caught(lastError, error) == error

\* what withRetry hands back to its caller, with the outcomes of the calls
\* of the operation so far
Returned(value, calls) ==
  [code |-> 0, message |-> "returned", body |-> [value |-> value, calls |-> calls]]

Thrown(error, calls) ==
  [code |-> 0, message |-> "thrown", body |-> [value |-> error, calls |-> calls]]

\* withRetry(operation, config): finalConfig, attempt = 1
WithRetryCall(p, maxRetries) ==
  /\ req[p].pc = "idle"
  /\ IF 1 <= maxRetries
     THEN Await(p, [pc |-> "retry_attempt", maxRetries |-> maxRetries, attempt |-> 1,
                    lastError |-> Undefined, calls |-> <<>>])
     ELSE Reply(p, Response("withRetry", "", 0, "throw", Thrown(Undefined, <<>>)))
  /\ UNCHANGED <<tasks, nextId, now, sweep, inProgressSince>>

\* one pass of the loop: await operation() settles with outcome, a value
\* or an error
WithRetryAttempt(p, outcome) ==
  /\ req[p].pc = "retry_attempt"
  /\ LET r == req[p]
         calls == Append(r.calls, outcome)
         lastError == Caught(r.lastError, outcome.error)
     IN IF outcome.ok
        THEN Reply(p, Response("withRetry", "", 0, "return", Returned(outcome.value, calls)))
        ELSE IF isRetryable(outcome.error) /\ r.attempt < r.maxRetries
        THEN Await(p, [r EXCEPT !.pc = "retry_wait", !.lastError = lastError, !.calls = calls])
        ELSE Reply(p, Response("withRetry", "", 0, "throw", Thrown(lastError, calls)))
  /\ UNCHANGED <<tasks, nextId, now, sweep, inProgressSince>>

\* the setTimeout of retryInterval fires: attempt++
WithRetryBackoff(p) ==
  /\ req[p].pc = "retry_wait"
  /\ IF req[p].attempt + 1 <= req[p].maxRetries
     THEN Await(p, [req[p] EXCEPT !.pc = "retry_attempt", !.attempt = @ + 1])
     ELSE Reply(p, Response("withRetry", "", 0, "throw", Thrown(req[p].lastError, req[p].calls)))
  /\ UNCHANGED <<tasks, nextId, now, sweep, inProgressSince>>

\* ------------------------------------------- createTask under withRetry
\* the attempt of withRetry's loop a createTask is in, and the tasks its
\* Task.create has inserted so far
Attempt(r) == Field(r, "attempt", 1)
Inserted(r) == Field(r, "inserted", {})

\* Task.create(...) rejects with error; applied tells whether the insert
\* had reached the collection when the call failed. withRetry's catch:
\* wait for retryInterval and run the operation again, or throw
CreateTaskSaveRejects(p, error, applied) ==
  /\ req[p].pc = "create_save"
  /\ LET r == req[p]
         doc == NewTask(r.body, r.user)
         lands == applied /\ Validate(doc, TRUE, now) /\ ~DuplicateKey(tasks, nextId, doc)
         inserted == IF lands THEN Inserted(r) \cup {nextId} ELSE Inserted(r)
     IN /\ IF lands
           THEN /\ tasks' = tasks @@ (nextId :> doc)
                /\ nextId' = nextId + 1
           ELSE UNCHANGED <<tasks, nextId>>
        /\ IF isRetryable(error) /\ Attempt(r) < DefaultMaxRetries
           THEN Await(p, [pc |-> "create_wait", user |-> r.user, body |-> r.body,
                          attempt |-> Attempt(r), inserted |-> inserted])
           ELSE Reply(p, Response("createTask", r.user, 0, "save", CreateTaskCatch(error)))
  /\ UNCHANGED <<now, sweep, inProgressSince>>

\* the timer fires, attempt++: findById(userId), findOne({ title, userId }),
\* countDocuments(collaborators) again
CreateTaskRetry(p) ==
  /\ req[p].pc = "create_wait"
  /\ LET r == req[p]
         Failed(error) ==
           Reply(p, Response("createTask", r.user, 0, "check", CreateTaskCatch(error)))
     IN IF r.user \notin Users THEN Failed(ErrUserNotFound)
        ELSE IF FindByTitle(r.body.title, r.user) THEN Failed(ErrDuplicate)
        ELSE IF ~AllExist(Field(r.body, "collaborators", <<>>)) THEN Failed(ErrCollaborators)
        ELSE Await(p, [r EXCEPT !.pc = "create_save", !.attempt = @ + 1])
  /\ UNCHANGED <<tasks, nextId, now, sweep, inProgressSince>>

\* ------------------------------------------------------ withTransaction
\* the session's writes: buffered in the transaction until it commits
StageWritesThrough(store, ids, value) ==
  [j \in DOMAIN store |-> IF j \in ids THEN [store[j] EXCEPT !.priority = value] ELSE store[j]]

Stage(store, ids, value) == store

\* session.commitTransaction(): every buffered write at once
Commit(store, ids, value) ==
  [j \in DOMAIN store |-> IF j \in ids THEN [store[j] EXCEPT !.priority = value] ELSE store[j]]

\* the transactions that are open
OpenTx == {q \in Procs : req[q].pc \in {"tx_run", "tx_failed"}}

\* mongoose.startSession(), session.startTransaction(): operations is to
\* write value to the tasks of targets
WithTransactionStart(p, targets, value) ==
  /\ req[p].pc = "idle"
  /\ Await(p, [pc |-> "tx_run", targets |-> targets, value |-> value, staged |-> {},
                stale |-> {}, error |-> Undefined, session |-> <<>>])
  /\ UNCHANGED <<tasks, nextId, now, sweep, inProgressSince>>

\* one write of operations(session): a document written by a transaction
\* that committed meanwhile, or by one still open, is a WriteConflict
TxWrite(p, id) ==
  /\ req[p].pc = "tx_run"
  /\ id \in req[p].targets \ req[p].staged
  /\ IF id \in req[p].stale \/ \E q \in OpenTx \ {p} : id \in req[q].staged
     THEN /\ Await(p, [req[p] EXCEPT !.pc = "tx_failed", !.error = ErrWriteConflict])
          /\ UNCHANGED tasks
     ELSE /\ Await(p, [req[p] EXCEPT !.staged = @ \cup {id}])
          /\ tasks' = Stage(tasks, {id}, req[p].value)
  /\ UNCHANGED <<nextId, now, sweep, inProgressSince>>

\* a step of operations(session) throws
TxThrow(p, error) ==
  /\ req[p].pc = "tx_run"
  /\ req[p].staged # req[p].targets
  /\ Await(p, [req[p] EXCEPT !.pc = "tx_failed", !.error = error])
  /\ UNCHANGED <<tasks, nextId, now, sweep, inProgressSince>>

\* operations returned: session.commitTransaction(), return result
WithTransactionCommit(p) ==
  /\ req[p].pc = "tx_run"
  /\ req[p].staged = req[p].targets
  /\ tasks' = Commit(tasks, req[p].staged, req[p].value)
  /\ req' = [q \in Procs |->
               IF q = p THEN Idle
               ELSE IF req[q].pc = "tx_run"
               THEN [req[q] EXCEPT !.stale = @ \cup req[p].staged]
               ELSE req[q]]
  /\ out' = Response("withTransaction", "", 0, "commit",
                     [code |-> 0, message |-> "returned",
                      body |-> [value |-> req[p].value, written |-> req[p].staged,
                                session |-> req[p].session \o
                                              <<"commitTransaction", "endSession">>]])
  /\ UNCHANGED <<nextId, now, sweep, inProgressSince, boot, users>>

\* operations returned and session.commitTransaction() rejects with error:
\* nothing is applied, and the catch block is entered
WithTransactionCommitRejects(p, error) ==
  /\ req[p].pc = "tx_run"
  /\ req[p].staged = req[p].targets
  /\ Await(p, [req[p] EXCEPT !.pc = "tx_failed", !.error = error,
                             !.session = Append(@, "commitTransaction")])
  /\ UNCHANGED <<tasks, nextId, now, sweep, inProgressSince>>

\* catch: session.abortTransaction(), throw error
WithTransactionAbort(p) ==
  /\ req[p].pc = "tx_failed"
  /\ Reply(p, Response("withTransaction", "", 0, "abort",
                        [code |-> 0, message |-> "thrown",
                         body |-> [value |-> req[p].error, written |-> {},
                                   session |-> req[p].session \o
                                                 <<"abortTransaction", "endSession">>]]))
  /\ UNCHANGED <<tasks, nextId, now, sweep, inProgressSince>>

\* --------------------------------------------------------- registerUser
EmailExistsMsg == "User with this email already exists"
UsernameExistsMsg == "User with this username already exists"
EmailInUseMsg == "email is already in use"
RegisterFailedMsg == "Could not register user"

\* the schema's lowercase: true on email, applied to saves and to filters
Lowercase(email) ==
  CASE email = "Ann@x.io" -> "ann@x.io"
    [] OTHER -> email

\* the validators of POST /users: username, email, password
RegisterValid(body) ==
  /\ Len(body.username) >= 3
  /\ body.email # ""
  /\ Len(body.password) >= 6

\* the schema's validator of password: a lower-case letter, an upper-case
\* letter and a digit
PasswordValid(password) ==
  /\ \E i \in DOMAIN password : password[i] \in {"a", "s", "w", "r", "d"}
  /\ \E i \in DOMAIN password : password[i] \in {"P"}
  /\ \E i \in DOMAIN password : password[i] \in {"0"}

\* userSchema.post("save") error hook
UserPostSave(err) ==
  IF err.name = "MongoServerError" /\ err.code = 11000
  THEN Err("Error", 0, EmailInUseMsg)
  ELSE err

\* the catch blocks of registerUser: the inner one, and the outer one for
\* what the inner one throws again
RegisterUserCatch(error) ==
  IF error.message \in {EmailExistsMsg, UsernameExistsMsg}
  THEN Result(409, error.message)
  ELSE IF error.name = "ValidationError"
  THEN Result(400, formatDbError(error))
  ELSE Result(500, RegisterFailedMsg)

\* the _id of the n-th account
UserId(n) ==
  CASE n = 4 -> "u4"
    [] n = 5 -> "u5"
    [] OTHER -> "u6"

\* User.findOne({ email }), User.findOne({ username }) in the transaction
RegisterUserFind(p, body) ==
  /\ req[p].pc = "idle"
  /\ LET Sent(site, result) == Reply(p, Response("registerUser", "", 0, site, result))
     IN IF ~RegisterValid(body)
        THEN Sent("route", RouteErrors)
        ELSE IF \E a \in users : a.email = Lowercase(body.email)
        THEN Sent("find", RegisterUserCatch(Err("Error", 0, EmailExistsMsg)))
        ELSE IF \E a \in users : a.username = body.username
        THEN Sent("find", RegisterUserCatch(Err("Error", 0, UsernameExistsMsg)))
        ELSE Await(p, [pc |-> "register_create", body |-> body])
  /\ UNCHANGED <<tasks, nextId, now, sweep, inProgressSince>>

\* User.create([userData], { session }) and the commit
RegisterUserCreate(p) ==
  /\ req[p].pc = "register_create"
  /\ LET body == req[p].body
         account == Account(UserId(Cardinality(users) + 1), body.username,
                            Lowercase(body.email))
         Sent(result) == Response("registerUser", "", 0, "create", result)
     IN IF ~PasswordValid(body.password)
        THEN /\ out' = Sent(RegisterUserCatch(ErrValidation))
             /\ UNCHANGED users
        ELSE IF \E a \in users : a.email = account.email \/ a.username = account.username
        THEN /\ out' = Sent(RegisterUserCatch(UserPostSave(ErrE11000)))
             /\ UNCHANGED users
        ELSE /\ out' = Sent(Result(201, "created"))
             /\ users' = users \cup {account}
  /\ req' = [req EXCEPT ![p] = Idle]
  /\ UNCHANGED <<tasks, nextId, now, sweep, inProgressSince, boot>>

\* ------------------------------------- a store round trip that rejects
\* the handler that is at pc, and its catch block
OpAt(pc) ==
  CASE pc = "status_save" -> "updateTaskStatus"
    [] pc = "details_save" -> "updateTaskDetails"
    [] pc = "delete_write" -> "deleteTask"
    [] pc = "comment_save" -> "addComment"

CatchOf(op, error) ==
  CASE op = "updateTaskStatus" -> UpdateTaskStatusCatch(error)
    [] op = "updateTaskDetails" -> UpdateTaskDetailsCatch(error)
    [] op = "deleteTask" -> DeleteTaskCatch(error)
    [] op = "addComment" -> AddCommentCatch(error)

\* const result = await operations(session): withTransaction calls the
\* handler's operations once
OperationsCalls == 1

\* the findOne of operations(session) rejects with error
FindRejects(p, pc, u, id, error) ==
  /\ req[p].pc = "idle"
  /\ Await(p, [pc |-> "tx_rejected", op |-> OpAt(pc), user |-> u, id |-> id,
                site |-> "find", error |-> error, calls |-> OperationsCalls])
  /\ UNCHANGED <<tasks, nextId, now, sweep, inProgressSince>>

\* the save or deleteOne of operations(session) rejects with error
SaveRejects(p, error) ==
  /\ req[p].pc \in TxPcs
  /\ Await(p, [pc |-> "tx_rejected", op |-> OpAt(req[p].pc), user |-> req[p].user,
                id |-> req[p].id, site |-> "save", error |-> error,
                calls |-> OperationsCalls])
  /\ UNCHANGED <<tasks, nextId, now, sweep, inProgressSince>>

\* withTransaction's catch: abortTransaction, throw error; the handler's
\* catch responds
TransactionRejected(p) ==
  /\ req[p].pc = "tx_rejected"
  /\ Reply(p, Response(req[p].op, req[p].user, req[p].id, req[p].site,
                        CatchOf(req[p].op, req[p].error)))
  /\ UNCHANGED <<tasks, nextId, now, sweep, inProgressSince>>

\* ------------------------------------------------ inputs of the requests
Description == <<"Q", "3">>
CollaboratorChoices == {<<>>, <<"u2">>}
CommentTexts == {"looks good"}

\* ------------------------------------------------------------------
\* Spec: the life of one task under every interleaving of the handlers
\* (its owner u1 creates it, changes its status and its title, the
\* collaborator u2 comments), the clock and the auto-close job.
\* ------------------------------------------------------------------
LifeOwner == "u1"
LifeCollaborator == "u2"
LifeBodies ==
  {[title |-> TitlePlan, description |-> Description,
    collaborators |-> <<LifeCollaborator>>]}
LifeDetails == {[title |-> TitleShip]}
LifeIds == 1..LifeTasks

Request(p) ==
  \/ \E body \in LifeBodies : nextId <= LifeTasks /\ CreateTaskCheck(p, LifeOwner, body)
  \/ CreateTaskSave(p)
  \/ \E id \in LifeIds, status \in TaskStatus : UpdateTaskStatusFind(p, LifeOwner, id, status)
  \/ UpdateTaskStatusSave(p)
  \/ \E id \in LifeIds, body \in LifeDetails : UpdateTaskDetailsFind(p, LifeOwner, id, body)
  \/ UpdateTaskDetailsSave(p)
  \/ \E id \in LifeIds, text \in CommentTexts :
       CommentRoom(id, MaxComments) /\ AddCommentFind(p, LifeCollaborator, id, text)
  \/ AddCommentSave(p)

Job(s) ==
  \/ CronTick(s)
  \/ RunAutoCloseTasksJob(s)
  \/ \E id \in TaskIds : AutoCloseTasksSave(s, id)

Next ==
  \/ Tick
  \/ \E p \in Procs : Request(p)
  \/ Job(1)

Spec == Init /\ [][Next]_vars

\* ------------------------------------------------------------------
\* SpecTitles: two owners create, retitle and delete tasks; no clock.
\* ------------------------------------------------------------------
TitleOwners == {"u1", "u2"}
TitleBodies == {[title |-> t, description |-> Description] : t \in Titles}
TitleDetails == {[title |-> t] : t \in Titles}

NextTitles ==
  \E p \in Procs :
    \/ \E u \in TitleOwners, body \in TitleBodies : CreateTaskCheck(p, u, body)
    \/ CreateTaskSave(p)
    \/ \E u \in TitleOwners, id \in TaskIds, body \in TitleDetails :
         UpdateTaskDetailsFind(p, u, id, body)
    \/ UpdateTaskDetailsSave(p)
    \/ \E u \in TitleOwners, id \in TaskIds : DeleteTaskFind(p, u, id)
    \/ DeleteTaskWrite(p)

SpecTitles == Init /\ [][NextTitles]_vars

\* ------------------------------------------------------------------
\* SpecAuth: one task of u1, with or without the collaborator u2; the
\* owner, the collaborator and the stranger u3 call every handler.
\* ------------------------------------------------------------------
AuthBodies ==
  {[title |-> TitlePlan, description |-> Description, collaborators |-> c] :
     c \in CollaboratorChoices}
AuthDetails ==
  {[title |-> TitleShip], [title |-> TitleShip, status |-> DONE, userId |-> "u3"]}
    \cup {[collaborators |-> c] : c \in CollaboratorChoices}
BadDetails == {[title |-> TitleShip, collaborators |-> <<"u9">>]}

NextAuth ==
  \E p \in {1} :
    \/ \E body \in AuthBodies : nextId <= LifeTasks /\ CreateTaskCheck(p, LifeOwner, body)
    \/ CreateTaskSave(p)
    \/ \E u \in Users, id \in TaskIds, status \in TaskStatus :
         UpdateTaskStatusFind(p, u, id, status)
    \/ UpdateTaskStatusSave(p)
    \/ \E u \in Users, id \in TaskIds, body \in AuthDetails \cup BadDetails :
         UpdateTaskDetailsFind(p, u, id, body)
    \/ UpdateTaskDetailsSave(p)
    \/ \E u \in Users, id \in TaskIds : DeleteTaskFind(p, u, id)
    \/ DeleteTaskWrite(p)
    \/ \E u \in Users, id \in TaskIds, text \in CommentTexts :
         CommentRoom(id, MaxComments) /\ AddCommentFind(p, u, id, text)
    \/ AddCommentSave(p)

SpecAuth == Init /\ [][NextAuth]_vars

\* ------------------------------------------------------------------
\* SpecQuiet: the owner's requests and one job that never run at the
\* same time: a sweep that runs to completion with no concurrent writer.
\* ------------------------------------------------------------------
QuietBodies ==
  {[title |-> t, description |-> Description] : t \in {TitlePlan, TitleShip}}
NoSweep == \A s \in Sweeps : sweep[s].pc = "idle"

NextQuiet ==
  \/ Tick
  \/ \E body \in QuietBodies : NoSweep /\ CreateTaskCheck(1, LifeOwner, body)
  \/ NoSweep /\ CreateTaskSave(1)
  \/ \E id \in TaskIds, status \in TaskStatus :
       NoSweep /\ UpdateTaskStatusFind(1, LifeOwner, id, status)
  \/ NoSweep /\ UpdateTaskStatusSave(1)
  \/ req[1].pc = "idle" /\ Job(1)

SpecQuiet == Init /\ [][NextQuiet]_vars

\* ------------------------------------------------------------------
\* SpecJobs: the scheduler's ticks and direct calls of the job, with the
\* owner changing the status of one task.
\* ------------------------------------------------------------------
NextJobs ==
  \/ Tick
  \/ \E body \in LifeBodies : nextId <= LifeTasks /\ CreateTaskCheck(1, LifeOwner, body)
  \/ CreateTaskSave(1)
  \/ \E id \in LifeIds, status \in TaskStatus : UpdateTaskStatusFind(1, LifeOwner, id, status)
  \/ UpdateTaskStatusSave(1)
  \/ \E s \in Sweeps : Job(s)

SpecJobs == Init /\ [][NextJobs]_vars

\* ------------------------------------------------------------------
\* SpecQuery: u1 and u2 create tasks, shared or not, while u2 and the
\* stranger u3 list tasks under every combination of the visibility
\* flag, the search term, the status filter and the page size.
\* ------------------------------------------------------------------
QueryBodies ==
  {[title |-> TitlePlan, description |-> Description, collaborators |-> c] :
     c \in CollaboratorChoices}
SearchTerm == <<"p", "l">>
Optional(f, values) == {<<>>} \cup {f :> v : v \in values}
Queries ==
  {a @@ b @@ c @@ d :
     a \in Optional("isCollaborator", {"true"}), b \in Optional("search", {SearchTerm}),
     c \in Optional("status", {PENDING}), d \in Optional("limit", {1})}

NextQuery ==
  \E p \in Procs :
    \/ \E u \in {"u1", "u2"}, body \in QueryBodies : CreateTaskCheck(p, u, body)
    \/ CreateTaskSave(p)
    \/ \E u \in {"u2", "u3"}, q \in Queries : GetTasksFind(p, u, q)
    \/ GetTasksCount(p)

SpecQuery == Init /\ [][NextQuery]_vars
\* ------------------------------------------------------------------
\* SpecFaults: the owner creates, starts and deletes two tasks while the
\* job runs, so that a save of the job can find its task gone.
\* ------------------------------------------------------------------
NextFaults ==
  \/ Tick
  \/ \E body \in QuietBodies : CreateTaskCheck(1, LifeOwner, body)
  \/ CreateTaskSave(1)
  \/ \E id \in TaskIds : UpdateTaskStatusFind(1, LifeOwner, id, IN_PROGRESS)
  \/ UpdateTaskStatusSave(1)
  \/ \E id \in TaskIds : DeleteTaskFind(1, LifeOwner, id)
  \/ DeleteTaskWrite(1)
  \/ Job(1)

SpecFaults == Init /\ [][NextFaults]_vars

\* ------------------------------------------------------------------
\* SpecBoot: the process from the loading of its modules: connectDB
\* succeeding, failing and retrying, the connection dropping, the clock,
\* the scheduler's ticks, and the owner creating and starting a task
\* while the store is connected.
\* ------------------------------------------------------------------
InitBoot ==
  /\ InitEngine
  /\ boot = ModuleLoad

Serving == boot.conn = "connected"

NextBoot ==
  \/ ConnectDBSucceeds
  \/ ConnectDBFails
  \/ Disconnected
  \/ Tick
  \/ \E body \in LifeBodies :
       Serving /\ nextId <= LifeTasks /\ CreateTaskCheck(1, LifeOwner, body)
  \/ Serving /\ CreateTaskSave(1)
  \/ \E id \in LifeIds : Serving /\ UpdateTaskStatusFind(1, LifeOwner, id, IN_PROGRESS)
  \/ Serving /\ UpdateTaskStatusSave(1)
  \/ CronTick(1)
  \/ \E id \in TaskIds : boot.conn # "exited" /\ AutoCloseTasksSave(1, id)

SpecBoot == InitBoot /\ [][NextBoot]_vars

\* ------------------------------------------------------------------
\* SpecCreate: u1 calls createTask, two calls at a time, with titles that
\* differ in case only, with and without priority and category, with
\* status and timestamps put into the body, and with collaborators that
\* exist or not.
\* ------------------------------------------------------------------
Forged == [status |-> DONE, startedAt |-> 0, completedAt |-> 0, tags |-> <<"urgent">>]
Chosen == [priority |-> "high", category |-> "Work"]
CreateBodies ==
  {[title |-> t, description |-> Description] @@ a @@ b @@ c :
     t \in {TitlePlan, TitleplanLower}, a \in {<<>>, Chosen}, b \in {<<>>, Forged},
     c \in Optional("collaborators", {<<"u2">>, <<"u9">>})}

NextCreate ==
  \E p \in Procs :
    \/ \E body \in CreateBodies : CreateTaskCheck(p, LifeOwner, body)
    \/ CreateTaskSave(p)
    \/ \E id \in TaskIds : DeleteTaskFind(p, LifeOwner, id)
    \/ DeleteTaskWrite(p)

SpecCreate == Init /\ [][NextCreate]_vars

\* ------------------------------------------------------------------
\* SpecDelete: the owner u1 changes the status of, retitles and deletes a
\* task and the collaborator u2 comments on it, two requests at a time; a
\* task created after a deletion gets a fresh _id.
\* ------------------------------------------------------------------
NextDelete ==
  \E p \in Procs :
    \/ \E body \in LifeBodies : CreateTaskCheck(p, LifeOwner, body)
    \/ CreateTaskSave(p)
    \/ \E id \in TaskIds : UpdateTaskStatusFind(p, LifeOwner, id, IN_PROGRESS)
    \/ UpdateTaskStatusSave(p)
    \/ \E id \in TaskIds, body \in LifeDetails : UpdateTaskDetailsFind(p, LifeOwner, id, body)
    \/ UpdateTaskDetailsSave(p)
    \/ \E id \in TaskIds, text \in CommentTexts :
         CommentRoom(id, MaxComments) /\ AddCommentFind(p, LifeCollaborator, id, text)
    \/ AddCommentSave(p)
    \/ \E id \in TaskIds : DeleteTaskFind(p, LifeOwner, id)
    \/ DeleteTaskWrite(p)

SpecDelete == Init /\ [][NextDelete]_vars

\* ------------------------------------------------------------------
\* SpecComments: the owner u1, the collaborator u2 and the stranger u3
\* comment on one task, two requests at a time, while the owner starts and
\* retitles it, the clock advances and the job closes it.
\* ------------------------------------------------------------------
NextComments ==
  \/ Tick
  \/ \E p \in Procs :
       \/ \E body \in LifeBodies : nextId <= LifeTasks /\ CreateTaskCheck(p, LifeOwner, body)
       \/ CreateTaskSave(p)
       \/ \E u \in Users, id \in LifeIds, text \in CommentTexts :
            CommentRoom(id, MaxThread) /\ AddCommentFind(p, u, id, text)
       \/ AddCommentSave(p)
  \/ \E id \in LifeIds : UpdateTaskStatusFind(1, LifeOwner, id, IN_PROGRESS)
  \/ UpdateTaskStatusSave(1)
  \/ \E id \in LifeIds, body \in LifeDetails : UpdateTaskDetailsFind(1, LifeOwner, id, body)
  \/ UpdateTaskDetailsSave(1)
  \/ Job(1)

SpecComments == Init /\ [][NextComments]_vars

\* ------------------------------------------------------------------
\* SpecRefs: u1 and a requester whose account does not exist create
\* tasks, and u1 replaces the collaborators of its tasks, with lists
\* that name existing users, the id u9 of no user, or both.
\* ------------------------------------------------------------------
NoAccount == "u9"
RefLists == {<<"u2">>, <<NoAccount>>, <<"u2", NoAccount>>, <<"u2", "u3">>}
RefBodies ==
  {[title |-> t, description |-> Description] @@ c :
     t \in {TitlePlan, TitleShip}, c \in Optional("collaborators", RefLists)}
RefDetails == {[collaborators |-> c] : c \in RefLists \cup {<<>>}}

NextRefs ==
  \E p \in Procs :
    \/ \E u \in {LifeOwner, NoAccount}, body \in RefBodies : CreateTaskCheck(p, u, body)
    \/ CreateTaskSave(p)
    \/ \E id \in TaskIds, body \in RefDetails : UpdateTaskDetailsFind(p, LifeOwner, id, body)
    \/ UpdateTaskDetailsSave(p)

SpecRefs == Init /\ [][NextRefs]_vars

\* ------------------------------------------------------------------
\* SpecRetry: withRetry called with maxRetries from 0 to the default,
\* around an operation that at each call returns a value or throws one of
\* the retryable errors, a validation error, a duplicate-title error or
\* another server error.
\* ------------------------------------------------------------------
AttemptMsg(k) ==
  CASE k = 1 -> "attempt 1"
    [] k = 2 -> "attempt 2"
    [] OTHER -> "attempt 3 or later"

\* what the operation can do at its k-th call
Outcomes(k) ==
  {[ok |-> TRUE, value |-> AttemptMsg(k), error |-> Undefined]}
    \cup {[ok |-> FALSE, value |-> "", error |-> Err(n, 0, AttemptMsg(k))] :
            n \in Range(retryableErrors)}
    \cup {[ok |-> FALSE, value |-> "", error |-> e] :
            e \in {ErrValidation, ErrDuplicate, ErrWriteConflict}}

\* the number of the operation's next call
NextCall(p) == IF req[p].pc = "retry_attempt" THEN Len(req[p].calls) + 1 ELSE 1

NextRetry ==
  \/ \E maxRetries \in 0..DefaultMaxRetries : WithRetryCall(1, maxRetries)
  \/ \E outcome \in Outcomes(NextCall(1)) : WithRetryAttempt(1, outcome)
  \/ WithRetryBackoff(1)

SpecRetry == Init /\ [][NextRetry]_vars

\* the operation settles and the timer fires
SpecRetryLive ==
  /\ SpecRetry
  /\ WF_vars(\E outcome \in Outcomes(NextCall(1)) : WithRetryAttempt(1, outcome))
  /\ WF_vars(WithRetryBackoff(1))

\* ------------------------------------------------------------------
\* SpecTx: once u1 has created two tasks, transactions that each write one
\* priority to both of them run two at a time; a transaction can lose a
\* write to a conflict, and its operations can throw between the writes.
\* ------------------------------------------------------------------
TxValues == {"high", "low"}
TxErrors == {ErrNotFound, ErrValidation}

NextTx ==
  \E p \in Procs :
    \/ \E body \in QuietBodies : CreateTaskCheck(p, LifeOwner, body)
    \/ CreateTaskSave(p)
    \/ \E value \in TxValues :
         nextId > MaxTasks /\ WithTransactionStart(p, DOMAIN tasks, value)
    \/ \E id \in TaskIds : TxWrite(p, id)
    \/ \E error \in TxErrors : TxThrow(p, error)
    \/ WithTransactionCommit(p)
    \/ WithTransactionAbort(p)

SpecTx == Init /\ [][NextTx]_vars

\* ------------------------------------------------------------------
\* SpecPaging: getTasks over collections of 0 to 25 and of 60 matching
\* tasks, with and without page and limit in the query string.
\* ------------------------------------------------------------------
Totals == (0..MaxTotal) \cup {OverMax}
PageQueries ==
  {a @@ b : a \in Optional("page", 1..MaxPage), b \in Optional("limit", {1, 2, 10, 100})}

NextPaging ==
  \/ \E total \in Totals, q \in PageQueries : GetTasksOver(1, total, q)
  \/ GetTasksRespond(1)

SpecPaging == Init /\ [][NextPaging]_vars

\* ------------------------------------------------------------------
\* SpecUsers: registrations, two at a time, with the email of an
\* existing account, with a new email in two spellings, with a taken or a
\* new username, and with a password the schema accepts or not.
\* ------------------------------------------------------------------
GoodPassword == <<"P", "a", "s", "s", "w", "0", "r", "d">>
WeakPassword == <<"p", "a", "s", "s", "w", "d">>
RegisterBodies ==
  {[username |-> n, email |-> e, password |-> w] :
     n \in {"ann", "bob", "user2"}, e \in {"u1@x.io", "ann@x.io", "Ann@x.io"},
     w \in {GoodPassword, WeakPassword}}
InFlightRegistrations == Cardinality({q \in Procs : req[q].pc = "register_create"})

NextUsers ==
  \E p \in Procs :
    \/ \E body \in RegisterBodies :
         /\ Cardinality(users) + InFlightRegistrations < MaxUsers
         /\ RegisterUserFind(p, body)
    \/ RegisterUserCreate(p)

SpecUsers == Init /\ [][NextUsers]_vars

\* ------------------------------------------------------------------
\* SpecRace: the owner creates one task and changes its status, two calls
\* at a time, as the clock runs.
\* ------------------------------------------------------------------
NextRace ==
  \/ Tick
  \/ \E body \in LifeBodies : nextId <= LifeTasks /\ CreateTaskCheck(1, LifeOwner, body)
  \/ CreateTaskSave(1)
  \/ \E p \in Procs, id \in LifeIds, status \in TaskStatus :
       UpdateTaskStatusFind(p, LifeOwner, id, status)
  \/ \E p \in Procs : UpdateTaskStatusSave(p)

SpecRace == Init /\ [][NextRace]_vars

\* ------------------------------------------------------------------
\* SpecSweeps: sweeps that run from their query to their last save at one
\* instant and with no request under way, one after the other, between
\* the owner's requests and the clock's ticks.
\* ------------------------------------------------------------------
NextSweeps ==
  \/ NoSweep /\ Tick
  \/ \E body \in QuietBodies : NoSweep /\ CreateTaskCheck(1, LifeOwner, body)
  \/ NoSweep /\ CreateTaskSave(1)
  \/ \E id \in TaskIds, status \in TaskStatus :
       NoSweep /\ UpdateTaskStatusFind(1, LifeOwner, id, status)
  \/ NoSweep /\ UpdateTaskStatusSave(1)
  \/ req[1].pc = "idle" /\ Job(1)

SpecSweeps == Init /\ [][NextSweeps]_vars

\* ------------------------------------------------------------------
\* SpecOutage: the owner's and the collaborator's requests on one task,
\* two at a time, with store round trips that reject with a network,
\* timeout or server-selection error.
\* ------------------------------------------------------------------
TransientErrors ==
  {Err(n, 0, "connection lost") :
     n \in {"MongoNetworkError", "MongoTimeoutError", "MongoServerSelectionError"}}

NextOutage ==
  \/ \E body \in LifeBodies : nextId <= LifeTasks /\ CreateTaskCheck(1, LifeOwner, body)
  \/ CreateTaskSave(1)
  \/ \E p \in Procs, id \in LifeIds :
       \/ UpdateTaskStatusFind(p, LifeOwner, id, IN_PROGRESS)
       \/ \E body \in LifeDetails : UpdateTaskDetailsFind(p, LifeOwner, id, body)
       \/ DeleteTaskFind(p, LifeOwner, id)
       \/ \E text \in CommentTexts :
            CommentRoom(id, MaxComments) /\ AddCommentFind(p, LifeCollaborator, id, text)
       \/ \E pc \in TxPcs, error \in TransientErrors :
            id \in DOMAIN tasks /\ FindRejects(p, pc, LifeOwner, id, error)
  \/ \E p \in Procs :
       \/ UpdateTaskStatusSave(p)
       \/ UpdateTaskDetailsSave(p)
       \/ DeleteTaskWrite(p)
       \/ AddCommentSave(p)
       \/ \E error \in TransientErrors : SaveRejects(p, error)
       \/ TransactionRejected(p)

SpecOutage == Init /\ [][NextOutage]_vars

\* ------------------------------------------------------------------
\* SpecLostAck: the owner creates tasks one call at a time; a Task.create
\* can reject with a write-concern error after its insert was applied, or
\* with a network error before or after it was applied.
\* ------------------------------------------------------------------
CreateFailures ==
  {<<Err("MongoWriteConcernError", 64, "waiting for replication timed out"), TRUE>>,
   <<Err("MongoNetworkError", 0, "connection lost"), TRUE>>,
   <<Err("MongoNetworkError", 0, "connection lost"), FALSE>>}

NextLostAck ==
  \/ Tick
  \/ \E body \in QuietBodies : CreateTaskCheck(1, LifeOwner, body)
  \/ CreateTaskSave(1)
  \/ \E f \in CreateFailures : CreateTaskSaveRejects(1, f[1], f[2])
  \/ CreateTaskRetry(1)

SpecLostAck == Init /\ [][NextLostAck]_vars

\* ------------------------------------------------------------------
\* SpecStartup: the process from the loading of its modules to the HTTP
\* server listening: connectDB succeeding, failing and retrying, the
\* connection dropping, and the owner's requests once the server listens
\* and the store is connected.
\* ------------------------------------------------------------------
Accepting == boot.server = "listening" /\ boot.conn = "connected"

NextStartup ==
  \/ ConnectDBSucceeds
  \/ ConnectDBFails
  \/ Disconnected
  \/ StartServer
  \/ Tick
  \/ \E body \in LifeBodies :
       Accepting /\ nextId <= LifeTasks /\ CreateTaskCheck(1, LifeOwner, body)
  \/ Accepting /\ CreateTaskSave(1)
  \/ \E id \in LifeIds, status \in TaskStatus :
       Accepting /\ UpdateTaskStatusFind(1, LifeOwner, id, status)
  \/ Accepting /\ UpdateTaskStatusSave(1)

SpecStartup == InitBoot /\ [][NextStartup]_vars

\* ------------------------------------------------------------------
\* SpecCommit: the transactions of SpecTx, with commits that can reject
\* with a transient error.
\* ------------------------------------------------------------------
NextCommit ==
  \/ NextTx
  \/ \E p \in Procs, error \in TransientErrors : WithTransactionCommitRejects(p, error)

SpecCommit == Init /\ [][NextCommit]_vars

\* ====================================================================
\* Properties
\* ====================================================================

\* C1: at every moment, under every interleaving of createTask,
\* updateTaskStatus, updateTaskDetails, addComment and the sweep, a persisted
\* task has status done exactly when its completedAt is set.
C1_DoneIffCompletedAt ==
  \A id \in DOMAIN tasks : (tasks[id].status = DONE) <=> (tasks[id].completedAt # Null)

\* a task that was started, retitled, commented on and then closed
C1_Witness ==
  \E id \in DOMAIN tasks :
    /\ tasks[id].status = DONE /\ tasks[id].completedAt # Null
    /\ tasks[id].startedAt # Null /\ tasks[id].completedAt > tasks[id].startedAt
    /\ tasks[id].title = TitleShip /\ tasks[id].comments # <<>>

\* C2: no two live tasks of the same owner have titles that are equal when
\* letter case is ignored.
C2_UniqueTitlePerOwner ==
  \A a, b \in DOMAIN tasks :
    a # b /\ tasks[a].userId = tasks[b].userId
      => Collate(tasks[a].title) # Collate(tasks[b].title)

\* two live tasks of one owner, and a retitle of one of them that was refused
C2_Witness ==
  /\ \E a, b \in DOMAIN tasks : a # b /\ tasks[a].userId = tasks[b].userId
  /\ out.op = "updateTaskDetails" /\ out.site = "save" /\ out.code = 500

\* a response that reports the duplicate title
IsConflict(response) ==
  response.code = 400 /\ Includes(response.message, "already exists")

\* C3: of the createTask calls of one owner and title whose existence checks
\* both passed, the one whose write comes first succeeds and persists one
\* task; one whose write finds the rival's task persisted answers Conflict,
\* not a server error, and persists nothing.
C3_ConcurrentCreate ==
  [][\A p \in Procs :
       req[p].pc = "create_save" /\ req'[p].pc = "idle" =>
         IF \E j \in DOMAIN tasks :
              /\ tasks[j].userId = req[p].user
              /\ Collate(tasks[j].title) = Collate(req[p].body.title)
         THEN /\ out'.op = "createTask" /\ IsConflict(out')
              /\ tasks' = tasks
         ELSE /\ out'.op = "createTask" /\ out'.code = 201
              /\ Cardinality(DOMAIN tasks') = Cardinality(DOMAIN tasks) + 1
              /\ \A j \in DOMAIN tasks : j \in DOMAIN tasks' /\ tasks'[j] = tasks[j]]_vars

\* a createTask that passed its existence check and lost the race at the write
C3_Witness ==
  /\ out.op = "createTask" /\ out.site = "save" /\ IsConflict(out)
  /\ \E j \in DOMAIN tasks : tasks[j].userId = out.to

\* the first step of one of the four handlers, called by u for task id
Called(p, u, id) ==
  \/ \E status \in TaskStatus : UpdateTaskStatusFind(p, u, id, status)
  \/ \E body \in AuthDetails : UpdateTaskDetailsFind(p, u, id, body)
  \/ DeleteTaskFind(p, u, id)
  \/ \E text \in CommentTexts : AddCommentFind(p, u, id, text)

\* C4: updateTaskStatus, updateTaskDetails, deleteTask and addComment, called
\* by a requester who is neither owner nor collaborator of an existing task,
\* answer 404 with the message they give for an id that does not exist, end
\* there, and leave the collection unchanged.
C4_StrangerGetsNotFound ==
  [][\A p \in Procs, u \in Users, id \in TaskIds :
       /\ Called(p, u, id)
       /\ \/ id \notin DOMAIN tasks
          \/ tasks[id].userId # u /\ u \notin Range(tasks[id].collaborators)
       => /\ out'.code = 404 /\ out'.message = NotFoundMsg
          /\ req'[p] = Idle
          /\ tasks' = tasks]_vars

\* a stranger was just answered 404 for a task that exists
C4_Witness ==
  /\ out.op \in {"updateTaskStatus", "updateTaskDetails", "deleteTask", "addComment"}
  /\ out.code = 404
  /\ out.id \in DOMAIN tasks
  /\ tasks[out.id].userId # out.to /\ out.to \notin Range(tasks[out.id].collaborators)

\* C5: every task in a getTasks response is owned by the requester or, only
\* when isCollaborator is "true", has the requester among its collaborators,
\* whatever other filters were given.
C5_ListedTasksAreVisible ==
  [][\A p \in Procs :
       req[p].pc = "list_count" /\ req'[p].pc = "idle" /\ out'.code = 200 =>
         \A i \in DOMAIN out'.body.tasks :
           LET task == out'.body.tasks[i].task
           IN \/ task.userId = req[p].user
              \/ /\ Field(req[p].q, "isCollaborator", "false") = "true"
                 /\ req[p].user \in Range(task.collaborators)]_vars

\* C6: once a task's startedAt is set, no step clears or changes it.
C6_StartedAtMonotonic ==
  [][\A id \in DOMAIN tasks \cap DOMAIN tasks' :
       tasks[id].startedAt # Null => tasks'[id].startedAt = tasks[id].startedAt]_vars

\* a task back in in-progress after a regression, with its first startedAt
C6_Witness ==
  \E id \in DOMAIN tasks :
    /\ tasks[id].status = IN_PROGRESS
    /\ tasks[id].startedAt # Null
    /\ inProgressSince[id] # Null /\ inProgressSince[id] > tasks[id].startedAt

\* C7: an updateTaskStatus whose new status is the task's current status
\* leaves the task's startedAt and completedAt as they were.
C7_SameStatusKeepsTimestamps ==
  [][\A p \in Procs :
       /\ req[p].pc = "status_save" /\ req'[p].pc = "idle"
       /\ req[p].id \in DOMAIN tasks
       /\ req[p].status = tasks[req[p].id].status \/ req[p].status = req[p].doc.status
       => /\ req[p].id \in DOMAIN tasks'
          /\ tasks'[req[p].id].startedAt = tasks[req[p].id].startedAt
          /\ tasks'[req[p].id].completedAt = tasks[req[p].id].completedAt]_vars

\* a done task was just set to done again, later than it was completed
C7_Witness ==
  /\ out.op = "updateTaskStatus" /\ out.site = "unmodified" /\ out.code = 200
  /\ out.id \in DOMAIN tasks
  /\ tasks[out.id].status = DONE /\ tasks[out.id].completedAt < now

\* in-progress with startedAt earlier than t minus two hours
StartedBeforeCutoff(doc, t) ==
  doc.status = IN_PROGRESS /\ doc.startedAt # Null /\ doc.startedAt < t - TwoHours

\* C8: a sweep with no concurrent writer selects exactly the tasks that are
\* in-progress with startedAt earlier than now minus 2 hours, each of its
\* writes leaves one selected task done with completedAt set, and no step of
\* the sweep changes any other task.
C8_SweepClosesExactlyStale ==
  [][\A s \in Sweeps :
       /\ sweep[s].pc = "idle" /\ sweep'[s].pc = "saving" =>
            /\ DOMAIN sweep'[s].found =
                 {id \in DOMAIN tasks : StartedBeforeCutoff(tasks[id], now)}
            /\ sweep'[s].todo = DOMAIN sweep'[s].found
            /\ tasks' = tasks
       /\ (\A r \in Sweeps : sweep[r].pc = "idle") /\ out'.op = "autoCloseTasks" =>
            /\ \A id \in DOMAIN tasks : ~StartedBeforeCutoff(tasks[id], now)
            /\ tasks' = tasks
       /\ sweep[s].pc = "saving" =>
            /\ DOMAIN tasks' = DOMAIN tasks
            /\ \A id \in DOMAIN tasks :
                 IF id \in sweep[s].todo /\ (sweep'[s].pc = "idle" \/ id \notin sweep'[s].todo)
                 THEN tasks'[id].status = DONE /\ tasks'[id].completedAt # Null
                 ELSE tasks'[id] = tasks[id]
            /\ sweep'[s].pc = "idle" =>
                 /\ out' = JobLog("Auto-close complete")
                 /\ \A id \in DOMAIN sweep[s].found :
                      tasks'[id].status = DONE /\ tasks'[id].completedAt # Null]_vars

\* a sweep just completed: it closed one task and left a younger one running
C8_Witness ==
  /\ out = JobLog("Auto-close complete")
  /\ \E a, b \in DOMAIN tasks :
       /\ tasks[a].status = DONE /\ tasks[a].completedAt = now
       /\ tasks[b].status = IN_PROGRESS /\ tasks[b].startedAt # Null

\* C9: a write of the sweep closes a task only if more than 2 hours passed
\* between the task's last entry into in-progress and the sweep's query.
C9_ClosedOnlyAfterTwoHoursInProgress ==
  [][\A s \in Sweeps : \A id \in DOMAIN tasks \cap DOMAIN tasks' :
       /\ sweep[s].pc = "saving" /\ id \in sweep[s].todo
       /\ tasks[id].status # DONE /\ tasks'[id].status = DONE
       => /\ inProgressSince[id] # Null
          /\ inProgressSince[id] < sweep[s].at - TwoHours]_vars

\* C10: at most one sweep is in flight at any moment.
C10_NoOverlappingSweeps ==
  Cardinality({s \in Sweeps : sweep[s].pc = "saving"}) <= 1
\* C11: every save of a sweep whose task is still in the collection leaves
\* that task done with completedAt set, also after another save of the same
\* sweep has failed.
C11_FailureDoesNotStopOtherSaves ==
  [][\A s \in Sweeps : \A id \in DOMAIN tasks :
       /\ sweep[s].pc = "saving" /\ id \in sweep[s].todo
       /\ sweep'[s].pc = "idle" \/ id \notin sweep'[s].todo
       => /\ id \in DOMAIN tasks'
          /\ tasks'[id].status = DONE /\ tasks'[id].completedAt # Null]_vars

\* a sweep one of whose saves has failed, with another task still to save
C11_Witness ==
  \E s \in Sweeps :
    /\ sweep[s].pc = "saving" /\ sweep[s].failed
    /\ \E id \in sweep[s].todo : id \in DOMAIN tasks /\ tasks[id].status = IN_PROGRESS

\* C12: the scheduler starts a sweep only after a connectDB has connected,
\* and once started it stays started through disconnects and reconnects for
\* as long as the process lives.
C12_SchedulerFollowsFirstConnection ==
  [][/\ boot.cron = "started" => boot.handlers
     /\ \/ \E s \in Sweeps : sweep[s].pc = "idle" /\ sweep'[s].pc = "saving"
        \/ out' = JobLog("No tasks to close")
        \/ out' = JobLog("Auto-close failed") /\ sweep' = sweep
        => boot.handlers /\ boot.cron = "started"
     /\ boot.cron = "started" => boot'.cron = "started"]_vars

\* the scheduler still started while the store is disconnected and a
\* reconnection is being retried
C12_Witness ==
  /\ boot.cron = "started" /\ boot.conn = "connecting" /\ boot.retryCount > 0
  /\ out = JobLog("Auto-close failed")
\* C13: updateTaskDetails and deleteTask, called by a collaborator who is
\* not the owner, answer 404 with the not-found message, end there, and
\* leave the collection unchanged.
C13_CollaboratorCannotEditOrDelete ==
  [][\A p \in Procs, u \in Users : \A id \in DOMAIN tasks :
       /\ tasks[id].userId # u /\ u \in Range(tasks[id].collaborators)
       /\ \/ DeleteTaskFind(p, u, id)
          \/ \E body \in AuthDetails : UpdateTaskDetailsFind(p, u, id, body)
       => /\ out'.code = 404 /\ out'.message = NotFoundMsg
          /\ req'[p] = Idle
          /\ tasks' = tasks]_vars

\* a collaborator was just answered 404 by updateTaskDetails or deleteTask
C13_Witness ==
  /\ out.op \in {"updateTaskDetails", "deleteTask"} /\ out.code = 404
  /\ out.id \in DOMAIN tasks
  /\ out.to \in Range(tasks[out.id].collaborators) /\ out.to # tasks[out.id].userId

\* C14: an updateTaskStatus by the owner or a collaborator is taken up
\* whatever the current and the requested status, answers 200, and leaves
\* the persisted status equal to the requested one.
C14_AnyTransitionAccepted ==
  [][\A p \in Procs :
       /\ \A u \in Users, status \in TaskStatus : \A id \in DOMAIN tasks :
            /\ tasks[id].userId = u \/ u \in Range(tasks[id].collaborators)
            /\ UpdateTaskStatusFind(p, u, id, status)
            => req'[p].pc = "status_save" /\ req'[p].status = status
       /\ req[p].pc = "status_save" /\ req'[p].pc = "idle" =>
            /\ out'.op = "updateTaskStatus" /\ out'.code = 200
            /\ req[p].id \in DOMAIN tasks'
            /\ tasks'[req[p].id].status = req[p].status]_vars

\* a collaborator just moved a started task back to pending
C14_Witness ==
  /\ out.op = "updateTaskStatus" /\ out.code = 200 /\ out.site = "save"
  /\ out.id \in DOMAIN tasks
  /\ out.to \in Range(tasks[out.id].collaborators) /\ out.to # tasks[out.id].userId
  /\ tasks[out.id].status = PENDING /\ tasks[out.id].startedAt # Null

\* C15: a task that createTask adds to the collection is pending with
\* startedAt and completedAt unset, whatever status and timestamps the body
\* carries, and has priority medium and category "Uncategorized" when the
\* body gives none.
C15_CreatedPendingWithDefaults ==
  [][\A p \in Procs : \A id \in DOMAIN tasks' \ DOMAIN tasks :
       req[p].pc = "create_save" /\ req'[p].pc = "idle" =>
         /\ tasks'[id].status = PENDING
         /\ tasks'[id].startedAt = Null /\ tasks'[id].completedAt = Null
         /\ "priority" \notin DOMAIN req[p].body => tasks'[id].priority = "medium"
         /\ "category" \notin DOMAIN req[p].body => tasks'[id].category = "Uncategorized"
         /\ tasks'[id].userId = req[p].user]_vars

\* a task created from a body that carried status done and timestamps,
\* and neither priority nor category
C15_Witness ==
  /\ out.op = "createTask" /\ out.code = 201
  /\ \E id \in DOMAIN tasks :
       /\ tasks[id].tags = <<"urgent">>
       /\ tasks[id].status = PENDING /\ tasks[id].completedAt = Null
       /\ tasks[id].priority = "medium" /\ tasks[id].category = "Uncategorized"

\* the owner has a live task with this title, letter case ignored
Collides(u, title) ==
  \E j \in DOMAIN tasks : tasks[j].userId = u /\ Collate(tasks[j].title) = Collate(title)

\* C16: a createTask with a body that passes the route's validators, for an
\* owner who has a task of the same title ignoring case, answers Conflict
\* and writes nothing: at its existence check, or else at its write.
C16_DuplicateTitleIsConflict ==
  [][\A p \in Procs :
       /\ \A body \in CreateBodies :
            /\ CreateTaskCheck(p, LifeOwner, body)
            /\ Range(Field(body, "collaborators", <<>>)) \subseteq Users
            /\ Collides(LifeOwner, body.title)
            => /\ tasks' = tasks
               /\ \/ IsConflict(out') /\ req'[p] = Idle
                  \/ req'[p].pc = "create_save"
       /\ /\ req[p].pc = "create_save" /\ req'[p].pc = "idle"
          /\ Collides(req[p].user, req[p].body.title)
          => IsConflict(out') /\ tasks' = tasks]_vars

\* the existence check of a createTask just found the owner's task of the
\* same title
C16_Witness ==
  /\ out.op = "createTask" /\ out.site = "check" /\ IsConflict(out)
  /\ \E j \in DOMAIN tasks : tasks[j].userId = out.to

\* C17: a createTask whose collaborators name an id of no user answers 400
\* at once and writes nothing.
C17_UnknownCollaboratorOnCreate ==
  [][\A p \in Procs, body \in CreateBodies :
       /\ CreateTaskCheck(p, LifeOwner, body)
       /\ \E c \in Range(Field(body, "collaborators", <<>>)) : c \notin Users
       => /\ out'.op = "createTask" /\ out'.code = 400
          /\ req'[p] = Idle
          /\ tasks' = tasks]_vars

\* a createTask was just refused by the route's validators
C17_Witness ==
  out.op = "createTask" /\ out.site = "route" /\ out.code = 400

\* the fields updateTaskDetails may write
Writable == DetailFields \cup {"collaborators"}

\* C18: an updateTaskDetails that answers 200 leaves every field the body
\* supplies with the supplied value and every other field, and in any case
\* userId, status, startedAt, completedAt and comments, as it was.
C18_DetailsChangeOnlySupplied ==
  [][\A p \in Procs :
       req[p].pc = "details_save" /\ req'[p].pc = "idle" /\ out'.code = 200 =>
         /\ req[p].id \in DOMAIN tasks /\ req[p].id \in DOMAIN tasks'
         /\ \A f \in DOMAIN tasks[req[p].id] :
              tasks'[req[p].id][f] =
                IF f \in Writable /\ f \in DOMAIN req[p].body
                THEN req[p].body[f] ELSE tasks[req[p].id][f]
         /\ \A j \in DOMAIN tasks \ {req[p].id} : tasks'[j] = tasks[j]]_vars

\* a started task with a comment was just given a new title
C18_Witness ==
  /\ out.op = "updateTaskDetails" /\ out.code = 200 /\ out.site = "save"
  /\ out.id \in DOMAIN tasks
  /\ tasks[out.id].title = TitleShip
  /\ tasks[out.id].status # PENDING /\ tasks[out.id].startedAt # Null
  /\ tasks[out.id].comments # <<>>

\* C19: the write of an updateTaskDetails whose new title equals, ignoring
\* case, the title of another task of the same owner answers Conflict and
\* leaves the task's title as it was.
C19_RetitleToDuplicateIsConflict ==
  [][\A p \in Procs :
       /\ req[p].pc = "details_save" /\ req'[p].pc = "idle"
       /\ req[p].id \in DOMAIN tasks
       /\ "title" \in DOMAIN req[p].body
       /\ \E j \in DOMAIN tasks \ {req[p].id} :
            /\ tasks[j].userId = tasks[req[p].id].userId
            /\ Collate(tasks[j].title) = Collate(req[p].body.title)
       => /\ IsConflict(out')
          /\ req[p].id \in DOMAIN tasks'
          /\ tasks'[req[p].id].title = tasks[req[p].id].title]_vars

\* C20: an updateTaskDetails whose collaborators name an id of no user
\* answers 400 at once, and nothing of its body is written.
C20_UnknownCollaboratorOnUpdate ==
  [][\A p \in Procs, u \in Users, id \in TaskIds, body \in BadDetails :
       UpdateTaskDetailsFind(p, u, id, body) =>
         /\ out'.op = "updateTaskDetails" /\ out'.code = 400
         /\ req'[p] = Idle
         /\ tasks' = tasks]_vars

\* the owner's update with an unknown collaborator was just refused
C20_Witness ==
  /\ out.op = "updateTaskDetails" /\ out.site = "route" /\ out.code = 400
  /\ out.id \in DOMAIN tasks /\ tasks[out.id].userId = out.to
  /\ tasks[out.id].title = TitlePlan

\* the ids of the tasks that were deleted
Deleted == (1..(nextId - 1)) \ DOMAIN tasks

\* C21: a deleteTask that answers 200 leaves the collection without the
\* task; a deleted task never comes back, and every deleteTask,
\* updateTaskStatus, updateTaskDetails and addComment called for its id
\* afterwards answers 404 with the not-found message and writes nothing.
C21_DeletedStaysNotFound ==
  [][/\ \A p \in Procs :
          req[p].pc = "delete_write" /\ req'[p] = Idle /\ out'.code = 200
          => req[p].id \notin DOMAIN tasks' /\ req[p].id \in Deleted'
     /\ \A id \in Deleted :
          /\ id \in Deleted'
          /\ \A p \in Procs, u \in Users :
               Called(p, u, id) =>
                 /\ out'.code = 404 /\ out'.message = NotFoundMsg
                 /\ req'[p] = Idle
                 /\ tasks' = tasks]_vars

\* the owner was just answered 404 for the task they deleted, while a task
\* created later is live
C21_Witness ==
  /\ out.op \in {"updateTaskStatus", "updateTaskDetails", "deleteTask", "addComment"}
  /\ out.code = 404 /\ out.to = LifeOwner
  /\ out.id \in Deleted
  /\ DOMAIN tasks # {}

\* s is an initial segment of t
IsPrefix(s, t) == Len(s) <= Len(t) /\ SubSeq(t, 1, Len(s)) = s

\* C22: every step leaves the comment list of every task a continuation
\* of what it was; an addComment by the owner or a collaborator is taken up,
\* and when it answers 201 the list is the old one followed by one comment
\* with the requester as author, the given text and the time of the write.
C22_CommentsAppendOnly ==
  [][/\ \A id \in DOMAIN tasks \cap DOMAIN tasks' :
          IsPrefix(tasks[id].comments, tasks'[id].comments)
     /\ \A p \in Procs :
          /\ \A u \in Users, text \in CommentTexts : \A id \in DOMAIN tasks :
               /\ tasks[id].userId = u \/ u \in Range(tasks[id].collaborators)
               /\ AddCommentFind(p, u, id, text)
               => req'[p].pc = "comment_save" /\ req'[p].user = u /\ tasks' = tasks
          /\ req[p].pc = "comment_save" /\ req'[p].pc = "idle" /\ out'.code = 201 =>
               /\ req[p].id \in DOMAIN tasks /\ req[p].id \in DOMAIN tasks'
               /\ tasks'[req[p].id].comments =
                    Append(tasks[req[p].id].comments,
                           [userId |-> req[p].user, text |-> req[p].text, createdAt |-> now])
               /\ \A j \in DOMAIN tasks \ {req[p].id} : tasks'[j] = tasks[j]]_vars

\* the collaborator's comment was just appended after the owner's
C22_Witness ==
  /\ out.op = "addComment" /\ out.code = 201 /\ out.to = LifeCollaborator
  /\ out.id \in DOMAIN tasks
  /\ Len(tasks[out.id].comments) = 2
  /\ tasks[out.id].comments[1].userId = LifeOwner
  /\ tasks[out.id].comments[2].userId = LifeCollaborator

\* C23: the owner and every collaborator of every task in the collection
\* is an existing user, whatever ids createTask and updateTaskDetails were
\* given.
C23_ReferencesExist ==
  \A id \in DOMAIN tasks :
    /\ tasks[id].userId \in Users
    /\ Range(tasks[id].collaborators) \subseteq Users

\* an updateTaskDetails just replaced the collaborators of a task that was
\* created with another list
C23_Witness ==
  /\ out.op = "updateTaskDetails" /\ out.code = 200 /\ out.site = "save"
  /\ out.id \in DOMAIN tasks
  /\ tasks[out.id].collaborators = <<"u2", "u3">>
  /\ \E j \in DOMAIN tasks \ {out.id} : tasks[j].collaborators = <<"u2">>

\* an outcome of the operation that is a failure of a transient class
Transient(outcome) ==
  /\ ~outcome.ok
  /\ outcome.error.name \in {"MongoNetworkError", "MongoTimeoutError",
                              "MongoWriteConcernError", "MongoServerSelectionError"}

\* the outcomes of the calls a withRetry has made, running or just ended
CallsOf(p) ==
  IF req[p].pc \in {"retry_attempt", "retry_wait"} THEN req[p].calls
  ELSE IF out.op = "withRetry" THEN out.body.calls
  ELSE <<>>

\* C24: every call of the operation but the last one made was followed by
\* another only because it failed with a transient error; a call that fails
\* with any other error is the last one, and withRetry throws that error.
C24_RetryOnlyTransient ==
  \A p \in Procs :
    /\ \A i \in 1..(Len(CallsOf(p)) - 1) : Transient(CallsOf(p)[i])
    /\ \A i \in 1..Len(CallsOf(p)) :
         ~CallsOf(p)[i].ok /\ ~Transient(CallsOf(p)[i]) =>
           /\ i = Len(CallsOf(p))
           /\ req[p].pc = "idle"
           /\ out.site = "throw" /\ out.body.value = CallsOf(p)[i].error

\* a validation error at the second call, after a transient failure, was
\* just thrown with a third call still allowed
C24_Witness ==
  /\ out.op = "withRetry" /\ out.site = "throw"
  /\ Len(out.body.calls) = 2
  /\ Transient(out.body.calls[1])
  /\ out.body.value = ErrValidation

\* a withRetry is running
Retrying(p) == req[p].pc \in {"retry_attempt", "retry_wait"}

\* C25: a withRetry that was called ends; it calls the operation at most
\* maxRetries times, returns the value of the first call that succeeds
\* without calling again, and when every call fails with a transient error
\* it throws the error of the last call.
C25_RetryBoundedAndEnds ==
  /\ \A p \in Procs : Retrying(p) ~> ~Retrying(p)
  /\ [][\A p \in Procs :
          /\ Retrying(p) => Len(req[p].calls) <= req[p].maxRetries
          /\ Retrying(p) /\ ~Retrying(p)' =>
               LET calls == out'.body.calls
               IN /\ out'.op = "withRetry"
                  /\ 1 <= Len(calls) /\ Len(calls) <= req[p].maxRetries
                  /\ \A i \in 1..(Len(calls) - 1) : ~calls[i].ok
                  /\ IF calls[Len(calls)].ok
                     THEN out'.site = "return"
                          /\ out'.body.value = calls[Len(calls)].value
                     ELSE out'.site = "throw"
                          /\ out'.body.value = calls[Len(calls)].error
                  /\ (\A i \in 1..Len(calls) : Transient(calls[i]))
                       => Len(calls) = req[p].maxRetries]_vars

\* the default three calls all failed with transient errors and the third
\* error was thrown
C25_Witness ==
  /\ out.op = "withRetry" /\ out.site = "throw"
  /\ Len(out.body.calls) = DefaultMaxRetries
  /\ \A i \in 1..DefaultMaxRetries : Transient(out.body.calls[i])
  /\ out.body.calls[1].error.name # out.body.calls[3].error.name
  /\ out.body.value = out.body.calls[3].error

Min(a, b) == IF a < b THEN a ELSE b
Max(a, b) == IF a > b THEN a ELSE b

\* C27: for a collection of total matching tasks, a limit of at least 1 and
\* a page of at least 1, getTasks answers with
\* min(limit, max(0, total - (page - 1) * limit)) tasks, hasNextPage exactly
\* when tasks remain after the page, and hasPrevPage exactly when page > 1;
\* for total 25, limit 10 and page 3: 5 tasks, no next page, a previous page.
C27_PaginationArithmetic ==
  [][\A p \in Procs :
       req[p].pc = "list_page" /\ req'[p].pc = "idle" =>
         LET total == req[p].total
             page == Field(req[p].q, "page", 1)
             limit == Field(req[p].q, "limit", 10)
             items == out'.body.tasks
             shown == Min(limit, Max(0, total - (page - 1) * limit))
         IN /\ out'.code = 200
            /\ Len(items) = shown
            /\ \A i \in 1..shown : items[i] = (page - 1) * limit + i
            /\ out'.body.pagination.hasNextPage <=> (total - page * limit > 0)
            /\ out'.body.pagination.hasPrevPage <=> (page > 1)
            /\ out'.body.pagination.totalTasks = total
            /\ total = 25 /\ limit = 10 /\ page = 3 =>
                 /\ Len(items) = 5
                 /\ ~out'.body.pagination.hasNextPage
                 /\ out'.body.pagination.hasPrevPage]_vars

\* the third page of 25 tasks by 10 was just returned
C27_Witness ==
  /\ out.op = "getTasks" /\ out.code = 200
  /\ out.body.pagination.totalTasks = 25 /\ out.body.pagination.currentPage = 3
  /\ out.body.tasks = <<21, 22, 23, 24, 25>>
  /\ out.body.pagination.totalPages = 3

\* C28: a response of GET /tasks holds at most 50 tasks, whatever limit
\* the query string asks for.
C28_PageSizeCapped ==
  out.op = "getTasks" /\ out.code = 200 => Len(out.body.tasks) <= 50

\* C29: a registration that passes the route's validators and whose email
\* is the email of an existing user is answered 400 with a message that contains "exists", and creates no user.
C29_ExistingEmailIs400 ==
  [][\A p \in Procs, body \in RegisterBodies :
       /\ RegisterUserFind(p, body)
       /\ RegisterValid(body)
       /\ \E a \in users : a.email = body.email
       => /\ out'.code = 400
          /\ out'.message \in {EmailExistsMsg, UsernameExistsMsg}
          /\ users' = users
          /\ req'[p] = Idle]_vars

C31_ConcurrentStatusUpdates ==
  /\ [](\A id \in DOMAIN tasks :
          (tasks[id].status = DONE) <=> (tasks[id].completedAt # Null))
  /\ [][\A id \in DOMAIN tasks :
          LET Wrote(p) ==
                /\ req[p].pc = "status_save" /\ req[p].id = id /\ req'[p].pc = "idle"
                /\ out'.site = "save" /\ out'.code = 200
          IN /\ \A p \in Procs :
                  Wrote(p) =>
                    /\ tasks'[id] =
                         PreSave(tasks[id], SetStatus(tasks[id], req[p].status, now), now)
                    /\ tasks'[id].status = req[p].status
             /\ tasks'[id] # tasks[id] => \E p \in Procs : Wrote(p)]_vars

\* one call has just written while the other holds its earlier read of the
\* same task, with another status requested
C31_Witness ==
  /\ out.op = "updateTaskStatus" /\ out.site = "save" /\ out.code = 200
  /\ \E p \in Procs :
       /\ req[p].pc = "status_save" /\ req[p].id = out.id
       /\ req[p].doc # tasks[out.id]
       /\ req[p].status # tasks[out.id].status

\* C32: a save of a sweep writes done only to a task whose persisted status
\* is in-progress when the save lands.
C32_SweepClosesOnlyInProgress ==
  [][\A s \in Sweeps : \A id \in DOMAIN tasks \cap DOMAIN tasks' :
       /\ sweep[s].pc = "saving" /\ id \in sweep[s].todo
       /\ sweep'[s].pc = "idle" \/ id \notin sweep'[s].todo
       /\ tasks'[id] # tasks[id] /\ tasks'[id].status = DONE
       => tasks[id].status = IN_PROGRESS]_vars

\* C33: a sweep that starts right after a sweep has completed, with no
\* other step in between, finds no task to close and changes no task: no
\* completedAt is rewritten.
C33_SweepIdempotent ==
  [][/\ out = JobLog("Auto-close complete")
     /\ sweep' # sweep \/ out'.op = "autoCloseTasks"
     => /\ out' = JobLog("No tasks to close")
        /\ sweep' = sweep
        /\ tasks' = tasks]_vars

\* a sweep has just found nothing to close at the instant at which a task
\* that was started more than two hours before was closed
C33_Witness ==
  /\ out = JobLog("No tasks to close")
  /\ \E id \in DOMAIN tasks :
       /\ tasks[id].status = DONE /\ tasks[id].completedAt = now
       /\ tasks[id].startedAt # Null /\ tasks[id].startedAt < now - TwoHours

\* C34: for every task a sweep has selected, the job's assignments followed
\* by the save hook give the status, startedAt and completedAt that
\* updateTaskStatus(done)'s assignments followed by the save hook give for
\* the same task at the same instant, and the job's save leaves the task
\* with exactly these.
SameTransition(a, b) ==
  /\ a.status = b.status
  /\ a.startedAt = b.startedAt
  /\ a.completedAt = b.completedAt

C34_SweepClosesAsCallerWould ==
  /\ [](\A s \in Sweeps :
          sweep[s].pc = "saving" =>
            \A id \in DOMAIN sweep[s].found :
              LET orig == sweep[s].found[id]
                  at == sweep[s].at
              IN SameTransition(PreSave(orig, Close(orig, at), at),
                                PreSave(orig, SetStatus(orig, DONE, at), at)))
  /\ [][\A s \in Sweeps : \A id \in DOMAIN tasks \cap DOMAIN tasks' :
          /\ sweep[s].pc = "saving" /\ id \in sweep[s].todo
          /\ sweep'[s].pc = "idle" \/ id \notin sweep'[s].todo
          => LET orig == sweep[s].found[id]
                 at == sweep[s].at
             IN SameTransition(tasks'[id], PreSave(orig, SetStatus(orig, DONE, at), at))]_vars

\* a sweep has just closed a task that had been started more than two
\* hours before
C34_Witness ==
  /\ out = JobLog("Auto-close complete")
  /\ \E id \in DOMAIN tasks :
       /\ tasks[id].status = DONE /\ tasks[id].completedAt = now
       /\ tasks[id].startedAt # Null /\ tasks[id].startedAt < now - TwoHours

\* C35: an updateTaskStatus, updateTaskDetails, deleteTask or addComment
\* whose store round trip failed with a transient error answers with the
\* failure only once its operations have run as many times as the retry
\* bound allows.
C35_TransientSurfacesAfterRetries ==
  [][\A p \in Procs :
       /\ req[p].pc = "tx_rejected" /\ isRetryable(req[p].error)
       /\ req'[p].pc = "idle" /\ out'.code = 500
       => req[p].calls >= DefaultMaxRetries]_vars

\* C36: a createTask call that answers with an error has inserted no task,
\* whatever withRetry ran again after a transient failure.
C36_FailedCreatePersistsNothing ==
  [][\A p \in Procs :
       /\ req[p].pc \in {"create_save", "create_wait"}
       /\ req'[p].pc = "idle" /\ out'.op = "createTask" /\ out'.code >= 400
       => /\ Inserted(req[p]) = {}
          /\ tasks' = tasks]_vars

\* C37: a task in progress has a startedAt, and a task that is in progress
\* or has a startedAt keeps a startedAt for as long as it exists: every task
\* that is or ever was in progress has one, and the sweep's query on
\* startedAt sees every task in progress.
C37_StartedOnceInProgress ==
  /\ [](\A id \in DOMAIN tasks :
          tasks[id].status = IN_PROGRESS => tasks[id].startedAt # Null)
  /\ [][\A id \in DOMAIN tasks \cap DOMAIN tasks' :
          tasks[id].status = IN_PROGRESS \/ tasks[id].startedAt # Null
            => tasks'[id].startedAt # Null]_vars

\* a task that was in progress and is pending again, still with its
\* startedAt
C37_Witness ==
  \E id \in DOMAIN tasks :
    /\ tasks[id].status = PENDING
    /\ tasks[id].startedAt # Null
    /\ inProgressSince[id] = Null

\* C38: the 500 response of a task operation carries no detail of the
\* error that caused it. The handlers' catch blocks do not read NODE_ENV, so
\* their responses are the ones of production mode as well.
TaskOperations ==
  {"createTask", "getTasks", "updateTaskStatus", "updateTaskDetails", "deleteTask",
   "addComment"}

C38_ServerErrorIsOpaque ==
  out.op \in TaskOperations /\ out.code = 500 => out.body.error = NoDetail

\* C39: the HTTP server listens only once a connection to the store has
\* been established.
C39_ListensAfterConnection ==
  boot.server = "listening" => boot.handlers

\* C40: when a withTransaction call returns or throws, exactly one of
\* commitTransaction and abortTransaction was called on its session, and
\* endSession was called last.
C40_OneOfCommitOrAbort ==
  out.op = "withTransaction" =>
    LET calls == out.body.session
    IN /\ Cardinality({i \in DOMAIN calls :
                         calls[i] \in {"commitTransaction", "abortTransaction"}}) = 1
       /\ calls[Len(calls)] = "endSession"
====
